---- MODULE Spec2Model ----
(***************************************************************************)
(* A model of jenkins/bootstrap.py: the result ledger (append_result and   *)
(* the conditional upload it relies on), the process supervisor (_call,    *)
(* terminate, read_all) and the build orchestrator (bootstrap, start,      *)
(* finish).                                                                *)
(***************************************************************************)
EXTENDS Integers, Sequences, FiniteSets, TLC

(***************************************************************************)
(* Bounds of the model                                                     *)
(***************************************************************************)
\* a writer's error counter is explored up to this value
MaxErrors == 2
\* duration, in seconds, of a slow gsutil command
LongCmd == 300
\* number of entries by which the longest initial history exceeds the cap
Over == 2
\* seconds by which the clock advances while the supervisor waits
TickUnit == 300
\* insertions into a Repos dictionary
MaxInserts == 2
\* complete lines a pipe holds at most
MaxLines == 1
\* writes the command makes to its output streams at most
MaxWrites == 3

(***************************************************************************)
(* Program constants                                                       *)
(***************************************************************************)
\* cache = cache[-300:]
HistoryCap == 300
\* end = time.time() + 300
RetryBudget == 300
\* random_sleep(min(errors, 3))
SleepCap == 3
\* end = max(end, time.time() + 60)
MinBudget == 60
\* end = time.time() + 15 * 60
Grace == 900
\* code = code or 124
TimeoutCode == 124
\* the status of a child ended by SIGTERM, by SIGKILL
SigTermCode == -15
SigKillCode == -9

Writers == {1, 2}
LedgerPaths == {"result_cache", "pr_result_cache"}
\* the marker of "generation is None" in upload_json
None == -1

VARIABLES
    store,      \* path -> [gen, doc, corrupt]: the remote history documents
    acceptLog,  \* path -> the accepted writes: [gen replaced, writer], in order
    wpc,        \* writer -> position inside append_result
    wpath,      \* writer -> the path argument
    wpassed,    \* writer -> the passed argument
    wt,         \* writer -> seconds elapsed since append_result began
    werrors,    \* writer -> errors
    wgen,       \* writer -> gen
    wcache,     \* writer -> cache as read (before the append)
    wprobed,    \* writer -> value of errors when gen was probed
    \* ---- one execution of _call
    cpc,        \* position inside _call
    hasEnd,     \* end is set (not 0/None)
    rem,        \* end - time.time(), kept down to -1 (the deadline has passed)
    timeout,    \* timeout
    check,      \* the check argument
    reads,      \* reads: the streams not yet read to their end
    ready,      \* the part of ret[0] the for loop has still to visit
    cur,        \* the stream read_all is reading, or "none"
    buf,        \* stream -> [lines, partial, open]: the pipe's pending text
    writesLeft, \* writes the command may still make
    childAlive, \* the direct child has not exited
    natural,    \* the direct child's exit status once it has exited
    termSent,   \* proc.terminate() was called
    sinceTerm,  \* seconds since proc.terminate(), kept up to Grace + 1
    killSent,   \* os.killpg(pgid, SIGKILL) was called
    graceAlive, \* the direct child was alive when the grace window ran out
    reported,   \* code after "code = code or 124"
    sinceBegin, \* seconds since "begin = time.time()", up to MinBudget + 1
    signalled,  \* the signals sent to each process of the command's group
    given,      \* the deadline _call was given, as seconds left at its begin
    \* ---- one run of bootstrap
    bpc,        \* position inside bootstrap
    repoKind,   \* "bare", "ci" (branch checkout) or "pr" (main repo has a pull)
    upload,     \* args.upload is set
    hasTimeout, \* args.timeout is set
    credsBroken,\* setup_credentials failed for a cause that stays (no key file)
    setupCreds, \* setup_creds
    success,    \* success
    excType,    \* the step whose exception "except Exception" caught, or "none"
    jobRan,     \* call(job_script(...)) ran the job script
    jobNatural, \* the job script's own exit status
    jobTimedOut,\* _call terminated the job script on timeout
    finishEntered, \* finish(...) was called
    latestTodo, \* pointers the loop at the end of finish has still to write
    cmdFailed,  \* some step or command has failed so far
    pubs,       \* the objects written to the store, in order
    outcome,    \* how bootstrap ended
    \* ---- one checkout(call, repo, branch, pull, ...)
    kpc,        \* position inside checkout
    kbranch,    \* branch
    kpull,      \* pull
    kcache,     \* git_cache is set
    kclean,     \* clean is set
    krefs,      \* refs
    kcheckouts, \* checkouts
    kattempt,   \* attempt of the fetch loop
    kcmds,      \* the git commands issued through call, in order
    kcwd,       \* the working directory: "root" or "repo"
    kstatus,    \* exit status of the command that failed last
    kresult,    \* how checkout ended
    \* ---- a Repos dictionary and the paths derived from it
    repos,      \* the dictionary: a function from its keys to (branch, pull)
    main,       \* Repos.main
    firstKey,   \* the key of the first insertion
    inserts,    \* insertions made so far
    prPaths,    \* the result of pr_paths for the dictionary, once computed
    keyOrder,   \* the keys of the dictionary in the order of their first insertion
    \* ---- one call of setup_root
    rpc,        \* position inside setup_root
    rtodo,      \* the items of repos.items() not yet visited, in iteration order
    rcur,       \* the repository being checked out
    rlog,       \* the git commands issued: [repo, op], in order
    rcwd        \* the working directory of the process

ledgerVars == <<store, acceptLog, wpc, wpath, wpassed, wt, werrors, wgen,
                wcache, wprobed>>

callVars == <<cpc, hasEnd, rem, timeout, check, reads, ready, cur, buf,
              writesLeft, childAlive, natural, termSent, sinceTerm, killSent,
              graceAlive, reported, sinceBegin, signalled, given>>

bootVars == <<bpc, repoKind, upload, hasTimeout, credsBroken, setupCreds,
              success, excType, jobRan, jobNatural, jobTimedOut, finishEntered,
              latestTodo, cmdFailed, pubs, outcome>>

checkoutVars == <<kpc, kbranch, kpull, kcache, kclean, krefs, kcheckouts,
                  kattempt, kcmds, kcwd, kstatus, kresult>>

reposVars == <<repos, main, firstKey, inserts, prPaths, keyOrder>>

rootVars == <<rpc, rtodo, rcur, rlog, rcwd>>

gitVars == <<checkoutVars, reposVars, rootVars>>

vars == <<ledgerVars, callVars, bootVars, gitVars>>

(***************************************************************************)
(* Result ledger: pure parts                                               *)
(***************************************************************************)
Min(a, b) == IF a < b THEN a ELSE b

Max(a, b) == IF a > b THEN a ELSE b

\* the build identifier of a writer's bootstrap run
BuildOf(w) == 1000 + w

\* the dictionary append_result appends
ResultRecord(build, version, passed) ==
    [version |-> version, job_version |-> version, buildnumber |-> build,
     passed |-> passed, result |-> IF passed THEN "SUCCESS" ELSE "FAILURE"]

\* a history of n earlier builds, oldest first
PriorDoc(n) == [i \in 1..n |-> ResultRecord(i, "v", TRUE)]

\* cache[-300:]
\* (mutant: cache[:300], which keeps the oldest entries)
Truncate_KeepOldest(cache) ==
    IF Len(cache) > HistoryCap
    THEN SubSeq(cache, 1, HistoryCap)
    ELSE cache

Truncate(cache) ==
    IF Len(cache) > HistoryCap
    THEN SubSeq(cache, Len(cache) - HistoryCap + 1, Len(cache))
    ELSE cache

\* cache.append({...}); cache = cache[-300:]
AppendedCache(cache, build, version, passed) ==
    Truncate(Append(cache, ResultRecord(build, version, passed)))

\* upload_json: the x-goog-if-generation-match header, None when absent
\* (mutant: the header is left out, the write is unconditional)
GenHeader_Unconditional(generation) == None

GenHeader(generation) == IF generation # None THEN generation ELSE None

\* the store's rule for a write carrying the header (generation 0: must not exist)
StoreAccepts(header, obj) == header = None \/ header = obj.gen

\* seconds elapsed since append_result began, after d more; the code only
\* compares it with the budget, so it is kept up to the budget
Elapsed(t, d) == Min(t + d, RetryBudget)

\* random_sleep(attempt): attempt ** 2 seconds (and a fraction of a second)
\* (mutant: the sleep is the attempt itself)
SleepSeconds_Linear(attempt) == attempt

SleepSeconds(attempt) == attempt * attempt

\* the argument of random_sleep in append_result
RetrySleepArg(errors) == Min(errors, SleepCap)

\* json.loads(...) of the stored text, [] when it is not a JSON list
\* (mutant: what a corrupt document decodes to is kept as the history)
Decoded_KeepsCorrupt(obj) ==
    IF obj.corrupt THEN <<ResultRecord(0, "v", FALSE)>> ELSE obj.doc

Decoded(obj) == IF obj.corrupt THEN <<>> ELSE obj.doc

Range(s) == {s[i] : i \in 1..Len(s)}

(***************************************************************************)
(* Result ledger: append_result, one action per step between commands      *)
(***************************************************************************)
\* append_result(gsutil, path, build, version, passed) is entered
append_result_begin(w, path, passed) ==
    /\ wpc[w] = "idle"
    /\ wpc' = [wpc EXCEPT ![w] = "loop"]
    /\ wpath' = [wpath EXCEPT ![w] = path]
    /\ wpassed' = [wpassed EXCEPT ![w] = passed]
    /\ wt' = [wt EXCEPT ![w] = 0]
    /\ werrors' = [werrors EXCEPT ![w] = 0]
    /\ UNCHANGED <<store, acceptLog, wgen, wcache, wprobed>>
    /\ UNCHANGED <<callVars, bootVars, gitVars>>

\* "while time.time() < end", with t the seconds since end was set
\* (mutant: the loop goes on whatever the clock says)
BudgetLeft_Always(t) == TRUE

BudgetLeft(t) == t < RetryBudget

\* while time.time() < end: if errors: random_sleep(min(errors, 3))
append_result_loop(w) ==
    /\ wpc[w] = "loop"
    /\ IF BudgetLeft(wt[w])
       THEN /\ wpc' = [wpc EXCEPT ![w] = "stat"]
            /\ wt' = [wt EXCEPT ![w] =
                  IF werrors[w] # 0
                  THEN Elapsed(@, SleepSeconds(RetrySleepArg(werrors[w])))
                  ELSE @]
       ELSE /\ wpc' = [wpc EXCEPT ![w] = "exhausted"]
            /\ wt' = wt
    /\ UNCHANGED <<store, acceptLog, wpath, wpassed, werrors, wgen, wcache, wprobed>>
    /\ UNCHANGED <<callVars, bootVars, gitVars>>

\* out = gsutil.stat(path); gen = re.search(...).group(1)
append_result_stat(w) ==
    /\ wpc[w] = "stat"
    /\ \E d \in {0, LongCmd} :
         /\ wt' = [wt EXCEPT ![w] = Elapsed(@, d)]
         /\ \/ \* the object exists and stat prints its generation
               /\ store[wpath[w]].gen # 0
               /\ wgen' = [wgen EXCEPT ![w] = store[wpath[w]].gen]
               /\ wpc' = [wpc EXCEPT ![w] = "cat"]
               /\ UNCHANGED wcache
            \/ \* CalledProcessError: gen = 0, cache = []
               /\ wgen' = [wgen EXCEPT ![w] = 0]
               /\ wcache' = [wcache EXCEPT ![w] = <<>>]
               /\ wpc' = [wpc EXCEPT ![w] = "upload"]
            \/ \* stat succeeds but prints no Generation: AttributeError
               /\ wpc' = [wpc EXCEPT ![w] = "raised"]
               /\ UNCHANGED <<wgen, wcache>>
    /\ wprobed' = [wprobed EXCEPT ![w] = werrors[w]]
    /\ UNCHANGED <<store, acceptLog, wpath, wpassed, werrors>>
    /\ UNCHANGED <<callVars, bootVars, gitVars>>

\* cache = json.loads(gsutil.cat(path, gen))
append_result_cat(w) ==
    /\ wpc[w] = "cat"
    /\ \E d \in {0, LongCmd} :
         /\ wt' = [wt EXCEPT ![w] = Elapsed(@, d)]
         /\ \/ \* the generation is still the stored one
               /\ store[wpath[w]].gen = wgen[w]
               /\ wcache' = [wcache EXCEPT ![w] = Decoded(store[wpath[w]])]
               /\ wpc' = [wpc EXCEPT ![w] = "upload"]
               /\ UNCHANGED werrors
            \/ \* CalledProcessError: errors += 1; continue
               /\ werrors[w] < MaxErrors
               /\ werrors' = [werrors EXCEPT ![w] = @ + 1]
               /\ wpc' = [wpc EXCEPT ![w] = "loop"]
               /\ UNCHANGED wcache
    /\ UNCHANGED <<store, acceptLog, wpath, wpassed, wgen, wprobed>>
    /\ UNCHANGED <<callVars, bootVars, gitVars>>

\* cache.append(...); cache = cache[-300:]; gsutil.upload_json(path, cache, generation=gen)
\* (cache is assigned again before its next use: the model clears it here)
append_result_upload(w) ==
    /\ wpc[w] = "upload"
    /\ LET path == wpath[w]
           doc == AppendedCache(wcache[w], BuildOf(w), "v", wpassed[w])
           applied == [gen |-> store[path].gen + 1, doc |-> doc, corrupt |-> FALSE]
           logged == Append(acceptLog[path], [gen |-> store[path].gen, w |-> w])
       IN \E d \in {0, LongCmd} :
            /\ wt' = [wt EXCEPT ![w] = Elapsed(@, d)]
            /\ \/ \* the store accepts the write and the command succeeds: return
                  /\ StoreAccepts(GenHeader(wgen[w]), store[path])
                  /\ store' = [store EXCEPT ![path] = applied]
                  /\ acceptLog' = [acceptLog EXCEPT ![path] = logged]
                  /\ wpc' = [wpc EXCEPT ![w] = "returned"]
                  /\ UNCHANGED werrors
               \/ \* the store accepts the write but the command reports failure
                  /\ StoreAccepts(GenHeader(wgen[w]), store[path])
                  /\ werrors[w] < MaxErrors
                  /\ store' = [store EXCEPT ![path] = applied]
                  /\ acceptLog' = [acceptLog EXCEPT ![path] = logged]
                  /\ werrors' = [werrors EXCEPT ![w] = @ + 1]
                  /\ wpc' = [wpc EXCEPT ![w] = "loop"]
               \/ \* rejected (generation mismatch) or failed before writing
                  /\ werrors[w] < MaxErrors
                  /\ werrors' = [werrors EXCEPT ![w] = @ + 1]
                  /\ wpc' = [wpc EXCEPT ![w] = "loop"]
                  /\ UNCHANGED <<store, acceptLog>>
    /\ wcache' = [wcache EXCEPT ![w] = <<>>]
    /\ UNCHANGED <<wpath, wpassed, wgen, wprobed>>
    /\ UNCHANGED <<callVars, bootVars, gitVars>>

(***************************************************************************)
(* Process supervisor: _call, terminate, read_all                          *)
(*                                                                         *)
(* Time is kept as rem = end - time.time(): "time.time() > end" is         *)
(* rem < 0 and "time.time() < end" is rem > 0.  The clock advances while   *)
(* the supervisor waits (in select with nothing to read, in a blocked      *)
(* readline, in proc.wait()).                                              *)
(***************************************************************************)
Streams == {"stdout", "stderr"}

EmptyPipe == [lines |-> 0, partial |-> FALSE, open |-> TRUE]

\* select.select reports the stream: bytes are pending, or it is at EOF
Readable(b) == b.lines > 0 \/ b.partial \/ ~b.open

\* stream.readline() can return: a whole line is pending, or the stream is at EOF
ReadlineReturns(b) == b.lines > 0 \/ ~b.open

\* the pipe after stream.readline() has returned
AfterReadline(b) ==
    IF b.lines > 0 THEN [b EXCEPT !.lines = @ - 1]
    ELSE [b EXCEPT !.partial = FALSE]

\* "not line": readline returned the empty string
ReadlineEmpty(b) == b.lines = 0 /\ ~b.partial /\ ~b.open

\* terminate: "if not end or time.time() <= end: return False"
\* (mutant: ">=" for "<=" lets the signal go at the deadline itself)
NotYetDue_AtDeadline(he, r) == ~he \/ r > 0

\* (mutant: "not end" is left out, so that no deadline counts as one long past)
NotYetDue_NoneIsPast(he, r) == he /\ r >= 0

NotYetDue(he, r) == ~he \/ r >= 0

\* read_all: "while not end or time.time() < end"
MayRead(he, r) == ~he \/ r > 0

\* _call: end = max(end, time.time() + 60), as time left
\* (mutant: the deadline is taken as given)
ClampedBudget_AsGiven(left) == left

ClampedBudget(left) == Max(left, MinBudget)

\* (mutant: the timeout flag is ignored)
ReportedCode_NoSentinel(code, timedOut) == code

\* _call: "if timeout: code = code or 124"
ReportedCode(code, timedOut) ==
    IF timedOut THEN (IF code # 0 THEN code ELSE TimeoutCode) ELSE code

\* (mutant: the kill goes out whether or not a terminate went before)
KillNow_Always(kill) == TRUE

\* terminate: "if kill:", called with kill = timeout
KillNow(kill) == kill

\* the processes of the group made by preexec_fn=os.setsid: the direct child
\* and what it has started
Group == {"child", "descendant"}

\* terminate: proc.terminate()
\* (mutant: the signal goes to the group, os.killpg(pgid, signal.SIGTERM))
TerminateTargets_Group == Group

TerminateTargets == {"child"}

\* terminate: os.killpg(pgid, signal.SIGKILL); proc.kill()
KillTargets == Group

Sent(sig, targets) ==
    [p \in Group |-> IF p \in targets THEN signalled[p] \cup {sig} ELSE signalled[p]]

\* the deadlines a call is given, as seconds left when it begins (0: none)
BudgetsLeft == {-TickUnit, MinBudget - 1, 2 * TickUnit}

CallIdle ==
    /\ cpc = "idle"
    /\ hasEnd = FALSE
    /\ rem = 0
    /\ timeout = FALSE
    /\ check = FALSE
    /\ reads = {}
    /\ ready = {}
    /\ cur = "none"
    /\ buf = [s \in Streams |-> EmptyPipe]
    /\ writesLeft = 0
    /\ childAlive = FALSE
    /\ natural = 0
    /\ termSent = FALSE
    /\ sinceTerm = 0
    /\ killSent = FALSE
    /\ graceAlive = FALSE
    /\ reported = 0
    /\ sinceBegin = 0
    /\ signalled = [p \in Group |-> {}]
    /\ given = 0

envVars == <<buf, writesLeft, childAlive, natural>>
histVars == <<termSent, sinceTerm, killSent, graceAlive, reported, sinceBegin,
              signalled>>

\* _call up to "while reads": the deadline is clamped, the child is started
call_begin(withEnd, left, chk) ==
    /\ cpc = "idle"
    /\ cpc' = "loop"
    /\ hasEnd' = withEnd
    /\ rem' = IF withEnd THEN ClampedBudget(left) ELSE 0
    /\ given' = IF withEnd THEN left ELSE 0
    /\ check' = chk
    /\ timeout' = FALSE
    /\ reads' = Streams
    /\ buf' = [s \in Streams |-> EmptyPipe]
    /\ writesLeft' = MaxWrites
    /\ childAlive' = TRUE
    /\ UNCHANGED <<ready, cur, natural, histVars>>
    /\ UNCHANGED <<ledgerVars, bootVars, gitVars>>

\* "while reads: if terminate(end, proc, timeout): ..."
call_loop ==
    /\ cpc = "loop"
    /\ IF reads = {}
       THEN /\ cpc' = "wait"
            /\ UNCHANGED <<rem, timeout, envVars, histVars>>
       ELSE IF NotYetDue(hasEnd, rem)
       THEN /\ cpc' = "select"
            /\ UNCHANGED <<rem, timeout, envVars, histVars>>
       ELSE IF KillNow(timeout)
       THEN \* os.killpg(pgid, signal.SIGKILL); proc.kill(); break
            /\ cpc' = "wait"
            /\ killSent' = TRUE
            /\ childAlive' = FALSE
            /\ natural' = IF childAlive THEN SigKillCode ELSE natural
            /\ buf' = [s \in Streams |-> [buf[s] EXCEPT !.open = FALSE]]
            /\ signalled' = Sent("KILL", KillTargets)
            /\ UNCHANGED <<rem, timeout, writesLeft, termSent, sinceTerm, graceAlive,
                           reported, sinceBegin>>
       ELSE \* proc.terminate(); end = time.time() + 15 * 60; timeout = True
            /\ cpc' = "select"
            /\ termSent' = TRUE
            /\ sinceTerm' = 0
            /\ rem' = Grace
            /\ timeout' = TRUE
            /\ signalled' = Sent("TERM", TerminateTargets)
            /\ UNCHANGED <<envVars, killSent, graceAlive, reported, sinceBegin>>
    /\ UNCHANGED <<given, hasEnd, check, reads, ready, cur>>
    /\ UNCHANGED <<ledgerVars, bootVars, gitVars>>

\* "ret = select.select(reads, [], [], 0.1)" and, when nothing is readable,
\* "if not ret[0] and proc.poll() is not None: break"
call_select ==
    /\ cpc = "select"
    /\ LET ret == {s \in reads : Readable(buf[s])}
       IN /\ ready' = ret
          /\ cpc' = IF ret # {} THEN "for"
                    ELSE IF ~childAlive THEN "wait" ELSE "loop"
    /\ UNCHANGED <<given, hasEnd, rem, timeout, check, reads, cur, envVars, histVars>>
    /\ UNCHANGED <<ledgerVars, bootVars, gitVars>>

\* "for fdesc in ret[0]: read_all(end, *reads[fdesc])": read_all is entered
call_read_all(s) ==
    /\ cpc = "for"
    /\ s \in ready
    /\ ready' = ready \ {s}
    /\ IF MayRead(hasEnd, rem)
       THEN /\ cpc' = "readline"
            /\ cur' = s
       ELSE \* "return False  # Time expired"
            /\ cpc' = IF ready' = {} THEN "loop" ELSE "for"
            /\ cur' = "none"
    /\ UNCHANGED <<given, hasEnd, rem, timeout, check, reads, envVars, histVars>>
    /\ UNCHANGED <<ledgerVars, bootVars, gitVars>>

\* read_all: "line = stream.readline()" returns, then the rest of the loop body
call_readline ==
    /\ cpc = "readline"
    /\ ReadlineReturns(buf[cur])
    /\ LET after == AfterReadline(buf[cur])
           back == IF ready = {} THEN "loop" ELSE "for"
       IN IF ReadlineEmpty(buf[cur])
          THEN \* "return True  # Read everything": reads.pop(fdesc)
               /\ reads' = reads \ {cur}
               /\ cpc' = back
               /\ cur' = "none"
               /\ UNCHANGED buf
          ELSE /\ buf' = [buf EXCEPT ![cur] = after]
               /\ reads' = reads
               /\ IF Readable(after) /\ MayRead(hasEnd, rem)
                  THEN UNCHANGED <<cpc, cur>>
                  ELSE /\ cpc' = back
                       /\ cur' = "none"
    /\ UNCHANGED <<given, hasEnd, rem, timeout, check, ready, writesLeft, childAlive,
                   natural, histVars>>
    /\ UNCHANGED <<ledgerVars, bootVars, gitVars>>

\* "code = proc.wait()" returns; "if timeout: code = code or 124";
\* "if check and code: raise subprocess.CalledProcessError"
call_wait ==
    /\ cpc = "wait"
    /\ ~childAlive
    /\ reported' = ReportedCode(natural, timeout)
    /\ cpc' = IF check /\ reported' # 0 THEN "raised" ELSE "returned"
    /\ UNCHANGED <<given, hasEnd, rem, timeout, check, reads, ready, cur, envVars,
                   termSent, sinceTerm, killSent, graceAlive, sinceBegin, signalled>>
    /\ UNCHANGED <<ledgerVars, bootVars, gitVars>>

CallActive == cpc \in {"loop", "select", "for", "readline", "wait"}

\* the supervisor is waiting for the command or for the clock
Waiting ==
    \/ cpc = "select" /\ \A s \in reads : ~Readable(buf[s])
    \/ cpc = "select" /\ hasEnd /\ rem = 0
    \/ cpc = "readline" /\ ~ReadlineReturns(buf[cur])
    \/ cpc = "wait" /\ childAlive

\* the clock advances by d seconds
advance(d) ==
    /\ Waiting
    /\ hasEnd
    /\ rem >= 0 \/ (termSent /\ sinceTerm <= Grace)
    /\ rem' = Max(rem - d, -1)
    /\ sinceTerm' = IF termSent THEN Min(sinceTerm + d, Grace + 1) ELSE 0
    /\ sinceBegin' = Min(sinceBegin + d, MinBudget + 1)
    /\ graceAlive' = IF termSent /\ sinceTerm <= Grace /\ sinceTerm' > Grace
                     THEN childAlive ELSE graceAlive
    /\ UNCHANGED <<given, cpc, hasEnd, timeout, check, reads, ready, cur, envVars,
                   termSent, killSent, reported, signalled>>
    /\ UNCHANGED <<ledgerVars, bootVars, gitVars>>

\* the steps the clock is seen to make
TickSizes == {MinBudget, TickUnit}

tick == \E d \in TickSizes : advance(d)

\* the command (the child or a descendant holding the stream) writes
child_write(s, newline) ==
    /\ CallActive
    /\ buf[s].open
    /\ writesLeft > 0
    /\ IF newline
       THEN /\ buf[s].lines < MaxLines
            /\ buf' = [buf EXCEPT ![s] = [@ EXCEPT !.lines = @ + 1, !.partial = FALSE]]
       ELSE /\ ~buf[s].partial
            /\ buf' = [buf EXCEPT ![s] = [@ EXCEPT !.partial = TRUE]]
    /\ writesLeft' = writesLeft - 1
    /\ UNCHANGED <<given, cpc, hasEnd, rem, timeout, check, reads, ready, cur,
                   childAlive, natural, histVars>>
    /\ UNCHANGED <<ledgerVars, bootVars, gitVars>>

\* every holder of the stream's write end has closed it
child_close(s) ==
    /\ CallActive
    /\ buf[s].open
    /\ buf' = [buf EXCEPT ![s] = [@ EXCEPT !.open = FALSE]]
    /\ UNCHANGED <<given, cpc, hasEnd, rem, timeout, check, reads, ready, cur,
                   writesLeft, childAlive, natural, histVars>>
    /\ UNCHANGED <<ledgerVars, bootVars, gitVars>>

\* the direct child exits (descendants may keep the streams open)
child_exit(code) ==
    /\ CallActive
    /\ childAlive
    /\ code = SigTermCode => termSent
    /\ childAlive' = FALSE
    /\ natural' = code
    /\ UNCHANGED <<given, cpc, hasEnd, rem, timeout, check, reads, ready, cur, buf,
                   writesLeft, histVars>>
    /\ UNCHANGED <<ledgerVars, bootVars, gitVars>>

SupervisorNext ==
    \/ \E withEnd \in BOOLEAN, left \in BudgetsLeft, chk \in BOOLEAN :
          call_begin(withEnd, left, chk)
    \/ call_loop
    \/ call_select
    \/ \E s \in Streams : call_read_all(s)
    \/ call_readline
    \/ call_wait

CommandNext ==
    \/ \E s \in Streams, newline \in BOOLEAN : child_write(s, newline)
    \/ \E s \in Streams : child_close(s)
    \/ \E code \in {0, 1, SigTermCode} : child_exit(code)

NextCall == SupervisorNext \/ tick \/ CommandNext

(***************************************************************************)
(* Build orchestrator: bootstrap, start, finish                            *)
(***************************************************************************)
\* the writer that stands for this bootstrap run in append_result
Me == 1

BootIdle ==
    /\ bpc = "init"
    /\ repoKind = "bare"
    /\ upload = FALSE
    /\ hasTimeout = FALSE
    /\ credsBroken = FALSE
    /\ setupCreds = FALSE
    /\ success = FALSE
    /\ excType = "none"
    /\ jobRan = FALSE
    /\ jobNatural = 0
    /\ jobTimedOut = FALSE
    /\ finishEntered = FALSE
    /\ latestTodo = {}
    /\ cmdFailed = FALSE
    /\ pubs = <<>>
    /\ outcome = "running"

\* ci_paths / pr_paths: the latest-build pointers of the build
LatestPointers(kind) ==
    IF kind = "pr" THEN {"latest-build.txt", "pr-latest-build.txt"}
    ELSE {"latest-build.txt"}

\* finish: 'result': 'SUCCESS' if success else 'FAILURE', 'passed': bool(success)
\* (mutant: a record that always says passed)
FinishedRecord_AlwaysPassed(ok) == "finished.json passed"

FinishedRecord(ok) == IF ok THEN "finished.json passed" ELSE "finished.json failed"

\* uploads of the history the store accepted during one append_result call
\* (mutant: every accepted upload is made twice)
LedgerWrites_Twice(path) ==
    [i \in 1..(2 * Len(acceptLog[path])) |-> "ledger"]

LedgerWrites(path) == [i \in 1..Len(acceptLog[path]) |-> "ledger"]

\* a handler that would let the try block go on to the job script
Caught_GoesOn(step) ==
    /\ excType' = step
    /\ success' = FALSE
    /\ cmdFailed' = TRUE
    /\ bpc' = "job"

\* bootstrap: "except Exception": exc_type is kept, success = False
Caught(step) ==
    /\ excType' = step
    /\ success' = FALSE
    /\ cmdFailed' = TRUE
    /\ bpc' = "after_try"

\* bootstrap up to "try:": arguments are read, paths are computed
boot_begin(kind, up, withTimeout) ==
    /\ bpc = "init"
    /\ bpc' = "setup_root"
    /\ repoKind' = kind
    /\ upload' = up
    /\ hasTimeout' = withTimeout
    /\ UNCHANGED <<credsBroken, setupCreds, success, excType, jobRan, jobNatural,
                   jobTimedOut, finishEntered, latestTodo, cmdFailed, pubs, outcome>>
    /\ UNCHANGED <<ledgerVars, callVars, gitVars>>

\* setup_root(call, args.root, repos, ...)
boot_setup_root ==
    /\ bpc = "setup_root"
    /\ \/ /\ bpc' = IF repoKind = "bare" THEN "setup_env" ELSE "find_version"
          /\ UNCHANGED <<excType, success, cmdFailed>>
       \/ Caught("setup_root")
    /\ UNCHANGED <<repoKind, upload, hasTimeout, credsBroken, setupCreds, jobRan,
                   jobNatural, jobTimedOut, finishEntered, latestTodo, pubs, outcome>>
    /\ UNCHANGED <<ledgerVars, callVars, gitVars>>

\* "if repos: version = find_version(call)"
boot_find_version ==
    /\ bpc = "find_version"
    /\ \/ /\ bpc' = "setup_env"
          /\ UNCHANGED <<excType, success, cmdFailed>>
       \/ Caught("find_version")
    /\ UNCHANGED <<repoKind, upload, hasTimeout, credsBroken, setupCreds, jobRan,
                   jobNatural, jobTimedOut, finishEntered, latestTodo, pubs, outcome>>
    /\ UNCHANGED <<ledgerVars, callVars, gitVars>>

\* setup_magic_environment(job)
boot_setup_magic_environment ==
    /\ bpc = "setup_env"
    /\ \/ /\ bpc' = "setup_credentials"
          /\ UNCHANGED <<excType, success, cmdFailed>>
       \/ Caught("setup_magic_environment")
    /\ UNCHANGED <<repoKind, upload, hasTimeout, credsBroken, setupCreds, jobRan,
                   jobNatural, jobTimedOut, finishEntered, latestTodo, pubs, outcome>>
    /\ UNCHANGED <<ledgerVars, callVars, gitVars>>

\* setup_credentials(call, args.service_account, upload); setup_creds = True
boot_setup_credentials ==
    /\ bpc = "setup_credentials"
    /\ \/ /\ setupCreds' = TRUE
          /\ bpc' = IF upload THEN "start" ELSE "job"
          /\ UNCHANGED <<credsBroken, excType, success, cmdFailed>>
       \/ \* ValueError (no service account) or IOError (no key file)
          /\ credsBroken' = TRUE
          /\ Caught("setup_credentials")
          /\ UNCHANGED setupCreds
       \/ \* CalledProcessError of gcloud auth activate-service-account
          /\ Caught("setup_credentials")
          /\ UNCHANGED <<credsBroken, setupCreds>>
    /\ UNCHANGED <<repoKind, upload, hasTimeout, jobRan, jobNatural, jobTimedOut,
                   finishEntered, latestTodo, pubs, outcome>>
    /\ UNCHANGED <<ledgerVars, callVars, gitVars>>

\* "if upload: start(gsutil, paths, started, node(), version, repos)"
boot_start ==
    /\ bpc = "start"
    /\ \/ \* upload_json(paths.started) and, for a PR, upload_text(paths.pr_build_link)
          /\ pubs' = IF repoKind = "pr"
                     THEN pubs \o <<"started.json", "pr-build-link">>
                     ELSE Append(pubs, "started.json")
          /\ bpc' = "job"
          /\ UNCHANGED <<excType, success, cmdFailed>>
       \/ \* upload_json(paths.started) fails
          /\ Caught("start")
          /\ UNCHANGED pubs
       \/ \* upload_text(paths.pr_build_link) fails
          /\ repoKind = "pr"
          /\ pubs' = Append(pubs, "started.json")
          /\ Caught("start")
    /\ UNCHANGED <<repoKind, upload, hasTimeout, credsBroken, setupCreds, jobRan,
                   jobNatural, jobTimedOut, finishEntered, latestTodo, outcome>>
    /\ UNCHANGED <<ledgerVars, callVars, gitVars>>

\* "success = False; try: call(job_script(job, use_json)); success = True
\*  except subprocess.CalledProcessError: ..."
boot_job ==
    /\ bpc = "job"
    /\ \/ \* the job script runs; _call raises when the reported status is not 0
          \E code \in {0, 1, SigTermCode}, timedOut \in BOOLEAN :
             /\ timedOut => hasTimeout
             /\ code = SigTermCode => timedOut
             /\ jobRan' = TRUE
             /\ jobNatural' = code
             /\ jobTimedOut' = timedOut
             /\ success' = (ReportedCode(code, timedOut) = 0)
             /\ cmdFailed' = (cmdFailed \/ ReportedCode(code, timedOut) # 0)
             /\ bpc' = "after_try"
             /\ UNCHANGED excType
       \/ \* job_script raises (the job's configuration cannot be read)
          /\ Caught("job_script")
          /\ UNCHANGED <<jobRan, jobNatural, jobTimedOut>>
    /\ UNCHANGED <<repoKind, upload, hasTimeout, credsBroken, setupCreds,
                   finishEntered, latestTodo, pubs, outcome>>
    /\ UNCHANGED <<ledgerVars, callVars, gitVars>>

\* "if not setup_creds: setup_credentials(call, args.service_account, upload)"
boot_retry_credentials ==
    /\ bpc = "after_try"
    /\ LET next == IF upload THEN "finish" ELSE "close_log"
       IN \/ /\ setupCreds
             /\ bpc' = next
             /\ UNCHANGED <<outcome, cmdFailed>>
          \/ /\ ~setupCreds
             /\ ~credsBroken
             /\ bpc' = next
             /\ UNCHANGED <<outcome, cmdFailed>>
          \/ \* the call raises again, outside the try: bootstrap ends here
             /\ ~setupCreds
             /\ bpc' = "ended"
             /\ outcome' = "raised_other"
             /\ cmdFailed' = TRUE
    /\ UNCHANGED <<repoKind, upload, hasTimeout, credsBroken, setupCreds, success,
                   excType, jobRan, jobNatural, jobTimedOut, finishEntered,
                   latestTodo, pubs>>
    /\ UNCHANGED <<ledgerVars, callVars, gitVars>>

\* finish up to append_result: upload_artifacts when _artifacts holds files
\* (a failure is caught), then metadata (its command failures are caught)
boot_finish_artifacts ==
    /\ bpc = "finish"
    /\ finishEntered' = TRUE
    /\ bpc' = "append"
    /\ \/ UNCHANGED <<pubs, cmdFailed>>
       \/ /\ pubs' = Append(pubs, "artifacts")
          /\ UNCHANGED cmdFailed
       \/ /\ cmdFailed' = TRUE
          /\ UNCHANGED pubs
    /\ UNCHANGED <<repoKind, upload, hasTimeout, credsBroken, setupCreds, success,
                   excType, jobRan, jobNatural, jobTimedOut, latestTodo, outcome>>
    /\ UNCHANGED <<ledgerVars, callVars, gitVars>>

\* finish: append_result(gsutil, paths.result_cache, ...) and, for a PR,
\* append_result(gsutil, paths.pr_result_cache, ...) are entered
boot_append_result(path) ==
    /\ \/ bpc = "append" /\ path = "result_cache"
       \/ bpc = "append_pr" /\ path = "pr_result_cache"
    /\ append_result_begin(Me, path, success)

\* the frame of append_result is left: its locals are dead
AppendResultLocalsGone ==
    /\ wt' = [wt EXCEPT ![Me] = 0]
    /\ werrors' = [werrors EXCEPT ![Me] = 0]
    /\ wgen' = [wgen EXCEPT ![Me] = 0]
    /\ wcache' = [wcache EXCEPT ![Me] = <<>>]
    /\ wprobed' = [wprobed EXCEPT ![Me] = 0]

\* append_result returns (after an accepted write, or with its budget used up)
boot_append_returns ==
    /\ bpc \in {"append", "append_pr"}
    /\ wpc[Me] \in {"returned", "exhausted"}
    /\ wpc' = [wpc EXCEPT ![Me] = "idle"]
    /\ pubs' = pubs \o LedgerWrites(wpath[Me])
    /\ cmdFailed' = (cmdFailed \/ werrors[Me] > 0 \/ wgen[Me] = 0
                       \/ wpc[Me] = "exhausted")
    /\ bpc' = IF bpc = "append" /\ repoKind = "pr" THEN "append_pr" ELSE "finished"
    /\ AppendResultLocalsGone
    /\ UNCHANGED <<store, acceptLog, wpath, wpassed>>
    /\ UNCHANGED <<repoKind, upload, hasTimeout, credsBroken, setupCreds, success,
                   excType, jobRan, jobNatural, jobTimedOut, finishEntered,
                   latestTodo, outcome>>
    /\ UNCHANGED <<callVars, gitVars>>

\* append_result raises AttributeError: neither finish nor bootstrap catches it
boot_append_raises ==
    /\ bpc \in {"append", "append_pr"}
    /\ wpc[Me] = "raised"
    /\ pubs' = pubs \o LedgerWrites(wpath[Me])
    /\ cmdFailed' = TRUE
    /\ bpc' = "ended"
    /\ outcome' = "raised_other"
    /\ AppendResultLocalsGone
    /\ UNCHANGED <<store, acceptLog, wpc, wpath, wpassed>>
    /\ UNCHANGED <<repoKind, upload, hasTimeout, credsBroken, setupCreds, success,
                   excType, jobRan, jobNatural, jobTimedOut, finishEntered, latestTodo>>
    /\ UNCHANGED <<callVars, gitVars>>

\* a finish that would go on to the pointers whatever upload_json did
PointersAfter_Regardless(uploaded, kind) == LatestPointers(kind)

\* finish: the loop over {paths.latest, paths.pr_latest} follows
\* gsutil.upload_json(paths.finished, data) and is reached only when that
\* call returned; when it raised, control has left finish
PointersAfter(uploaded, kind) == IF uploaded THEN LatestPointers(kind) ELSE {}

\* finish: gsutil.upload_json(paths.finished, data); in bootstrap a
\* CalledProcessError leaving finish sets success = False
boot_finish_finished ==
    /\ bpc = "finished"
    /\ \/ /\ pubs' = Append(pubs, FinishedRecord(success))
          /\ latestTodo' = PointersAfter(TRUE, repoKind)
          /\ bpc' = "latest"
          /\ UNCHANGED <<success, cmdFailed>>
       \/ /\ success' = FALSE
          /\ cmdFailed' = TRUE
          /\ latestTodo' = PointersAfter(FALSE, repoKind)
          /\ bpc' = IF latestTodo' = {} THEN "close_log" ELSE "latest"
          /\ UNCHANGED pubs
    /\ UNCHANGED <<repoKind, upload, hasTimeout, credsBroken, setupCreds, excType,
                   jobRan, jobNatural, jobTimedOut, finishEntered, outcome>>
    /\ UNCHANGED <<ledgerVars, callVars, gitVars>>

\* finish: "for path in {paths.latest, paths.pr_latest}: gsutil.upload_text(...)",
\* a failure is caught
boot_finish_latest(path) ==
    /\ bpc = "latest"
    /\ path \in latestTodo
    /\ latestTodo' = latestTodo \ {path}
    /\ bpc' = IF latestTodo' = {} THEN "close_log" ELSE "latest"
    /\ \/ /\ pubs' = Append(pubs, path)
          /\ UNCHANGED cmdFailed
       \/ /\ cmdFailed' = TRUE
          /\ UNCHANGED pubs
    /\ UNCHANGED <<repoKind, upload, hasTimeout, credsBroken, setupCreds, success,
                   excType, jobRan, jobNatural, jobTimedOut, finishEntered, outcome>>
    /\ UNCHANGED <<ledgerVars, callVars, gitVars>>

\* "build_log.close(); if upload: gsutil.copy_file(paths.build_log, build_log_path)"
boot_build_log ==
    /\ bpc = "close_log"
    /\ \/ /\ ~upload
          /\ bpc' = "end"
          /\ UNCHANGED <<pubs, outcome, cmdFailed>>
       \/ /\ upload
          /\ pubs' = Append(pubs, "build-log.txt")
          /\ bpc' = "end"
          /\ UNCHANGED <<outcome, cmdFailed>>
       \/ \* copy_file raises CalledProcessError: nothing catches it
          /\ upload
          /\ bpc' = "ended"
          /\ outcome' = "raised_other"
          /\ cmdFailed' = TRUE
          /\ UNCHANGED pubs
    /\ UNCHANGED <<repoKind, upload, hasTimeout, credsBroken, setupCreds, success,
                   excType, jobRan, jobNatural, jobTimedOut, finishEntered, latestTodo>>
    /\ UNCHANGED <<ledgerVars, callVars, gitVars>>

\* an ending that would not look at success
EndOutcome_IgnoresSuccess(exc, ok) == IF exc # "none" THEN "raised_orig" ELSE "exit0"

\* "if exc_type: raise exc_type, exc_value, exc_traceback" then
\* "if not success: sys.exit(1)", else the function returns
EndOutcome(exc, ok) ==
    IF exc # "none" THEN "raised_orig"
    ELSE IF ~ok THEN "exit1" ELSE "exit0"

\* "if exc_type: raise ...; if not success: sys.exit(1)"
boot_end ==
    /\ bpc = "end"
    /\ bpc' = "ended"
    /\ outcome' = EndOutcome(excType, success)
    /\ UNCHANGED <<repoKind, upload, hasTimeout, credsBroken, setupCreds, success,
                   excType, jobRan, jobNatural, jobTimedOut, finishEntered,
                   latestTodo, cmdFailed, pubs>>
    /\ UNCHANGED <<ledgerVars, callVars, gitVars>>

(***************************************************************************)
(* Reference plans: pull_ref, branch_ref, pull_numbers                     *)
(*                                                                         *)
(* A Python string is the sequence of its characters; a pull given as an   *)
(* integer is [int |-> n] and one given as a string is [str |-> chars].    *)
(***************************************************************************)
DigitChars == <<"0", "1", "2", "3", "4", "5", "6", "7", "8", "9">>

\* the value of a decimal digit
DigitVal(c) == (CHOOSE i \in 1..10 : DigitChars[i] = c) - 1

\* c in s
Contains(s, c) == \E i \in 1..Len(s) : s[i] = c

\* s.split(sep) for a one-character separator
RECURSIVE Split(_, _)
Split(s, sep) ==
    IF Contains(s, sep)
    THEN LET i == CHOOSE k \in 1..Len(s) :
                     s[k] = sep /\ \A j \in 1..(k - 1) : s[j] # sep
         IN <<SubSeq(s, 1, i - 1)>> \o Split(SubSeq(s, i + 1, Len(s)), sep)
    ELSE <<s>>

\* sep.join(parts)
RECURSIVE Join(_, _)
Join(parts, sep) ==
    IF Len(parts) = 0 THEN <<>>
    ELSE IF Len(parts) = 1 THEN parts[1]
    ELSE parts[1] \o <<sep>> \o Join(Tail(parts), sep)

\* int(s) succeeds: s is a string of decimal digits
IsDecimal(s) ==
    Len(s) > 0 /\ \A i \in 1..Len(s) : \E d \in 1..10 : DigitChars[d] = s[i]

\* int(s) for a string of decimal digits
RECURSIVE ParseInt(_)
ParseInt(s) ==
    IF Len(s) = 0 THEN 0
    ELSE 10 * ParseInt(SubSeq(s, 1, Len(s) - 1)) + DigitVal(s[Len(s)])

\* '%d' % n for n >= 0
RECURSIVE FormatInt(_)
FormatInt(n) ==
    IF n < 10 THEN <<DigitChars[n + 1]>>
    ELSE FormatInt(n \div 10) \o <<DigitChars[(n % 10) + 1]>>

IsInt(pull) == "int" \in DOMAIN pull

\* bool(pull), bool(branch)
Truthy(v) == IF IsInt(v) THEN v.int # 0 ELSE Len(v.str) > 0

\* str(pull)
StrOf(pull) == IF IsInt(pull) THEN FormatInt(pull.int) ELSE pull.str

FetchHead == <<"F", "E", "T", "C", "H", "_", "H", "E", "A", "D">>

\* '+refs/pull/%d/merge' % n
MergeRef(n) == <<"+", "r", "e", "f", "s", "/", "p", "u", "l", "l", "/">> \o FormatInt(n) \o <<"/", "m", "e", "r", "g", "e">>

\* '+refs/pull/%d/head:refs/pr/%d' % (num, num)
HeadRef(num) ==
    <<"+", "r", "e", "f", "s", "/", "p", "u", "l", "l", "/">> \o FormatInt(num) \o <<"/", "h", "e", "a", "d", ":", "r", "e", "f", "s", "/", "p", "r", "/">> \o FormatInt(num)

\* 'refs/pr/%s' % ref
PrRef(ref) == <<"r", "e", "f", "s", "/", "p", "r", "/">> \o ref

\* what a function gives back: a (refs, checkouts) pair or a ValueError
Plan(refs, checkouts) == [err |-> "none", refs |-> refs, checkouts |-> checkouts]
Raised(what) == [err |-> what, refs |-> <<>>, checkouts |-> <<>>]

\* pull_ref: "for ref in pulls", from entry i on
\* (mutant: a pull pinned to a commit is not fetched)
RECURSIVE PullRefLoop_SkipPinned(_, _, _, _)
PullRefLoop_SkipPinned(pulls, i, refs, checkouts) ==
    IF i > Len(pulls) THEN Plan(refs, checkouts)
    ELSE LET ref == pulls[i]
             parts == Split(ref, ":")
             pinned == Contains(ref, ":")
             name == IF pinned THEN parts[1] ELSE ref
             sha == IF pinned THEN parts[2]
                    ELSE IF refs = <<>> THEN FetchHead ELSE PrRef(ref)
         IN IF pinned /\ Len(parts) # 2 THEN Raised("ValueError")
            ELSE IF refs = <<>>
            THEN PullRefLoop_SkipPinned(pulls, i + 1, <<ref>>, Append(checkouts, sha))
            ELSE IF ~IsDecimal(name) THEN Raised("ValueError")
            ELSE PullRefLoop_SkipPinned(pulls, i + 1,
                    IF pinned THEN refs ELSE Append(refs, HeadRef(ParseInt(name))),
                    Append(checkouts, sha))

RECURSIVE PullRefLoop(_, _, _, _)
PullRefLoop(pulls, i, refs, checkouts) ==
    IF i > Len(pulls) THEN Plan(refs, checkouts)
    ELSE LET ref == pulls[i]
             parts == Split(ref, ":")
             pinned == Contains(ref, ":")
             name == IF pinned THEN parts[1] ELSE ref
             sha == IF pinned THEN parts[2]
                    ELSE IF refs = <<>> THEN FetchHead ELSE PrRef(ref)
         IN IF pinned /\ Len(parts) # 2 THEN Raised("ValueError")
            ELSE IF refs = <<>>
            THEN PullRefLoop(pulls, i + 1, <<name>>, Append(checkouts, sha))
            ELSE IF ~IsDecimal(name) THEN Raised("ValueError")
            ELSE PullRefLoop(pulls, i + 1,
                             Append(refs, HeadRef(ParseInt(name))),
                             Append(checkouts, sha))

\* pull_ref(pull)
\* (mutant: the pull number is pasted as given, without int())
pull_ref_NoInt(pull) ==
    IF IsInt(pull) THEN Plan(<<MergeRef(pull.int)>>, <<FetchHead>>)
    ELSE IF ~Contains(pull.str, ",")
    THEN IF IsDecimal(pull.str)
         THEN Plan(<<<<"+", "r", "e", "f", "s", "/", "p", "u", "l", "l", "/">> \o pull.str \o <<"/", "m", "e", "r", "g", "e">>>>, <<FetchHead>>)
         ELSE Raised("ValueError")
    ELSE PullRefLoop(Split(pull.str, ","), 1, <<>>, <<>>)

pull_ref(pull) ==
    IF IsInt(pull) THEN Plan(<<MergeRef(pull.int)>>, <<FetchHead>>)
    ELSE IF ~Contains(pull.str, ",")
    THEN IF IsDecimal(pull.str)
         THEN Plan(<<MergeRef(ParseInt(pull.str))>>, <<FetchHead>>)
         ELSE Raised("ValueError")
    ELSE PullRefLoop(Split(pull.str, ","), 1, <<>>, <<>>)

\* ref_has_shas(ref)
ref_has_shas(ref) == ~IsInt(ref) /\ Contains(ref.str, ":")

\* branch_ref(branch)
branch_ref(branch) ==
    IF ref_has_shas(branch)
    THEN LET split_refs == Split(branch.str, ":")
         IN Plan(<<split_refs[1]>>, <<split_refs[2]>>)
    ELSE Plan(<<branch.str>>, <<FetchHead>>)

\* pull_numbers(pull)
pull_numbers(pull) ==
    IF ref_has_shas(pull)
    THEN LET rs == Split(pull.str, ",")
         IN [i \in 1..(Len(rs) - 1) |-> Split(rs[i + 1], ":")[1]]
    ELSE <<StrOf(pull)>>

(***************************************************************************)
(* checkout                                                                *)
(***************************************************************************)
\* exit statuses a failing git command is given here
FailStatuses == {1, 128}

\* "retries = 3"
Retries == 3

\* the exit status for which a failed fetch is tried again
RetryStatus == 128

Str(chars) == [str |-> chars]

\* branches handed to checkout
Branches == {Str(<<>>), Str(<<"m", "a", "s", "t", "e", "r">>), Str(<<"m", "a", "s", "t", "e", "r", ":", "a", "b", "c">>)}

\* pull numbers given as strings: one or two of these digits
PullDigits == {"0", "1", "2", "9"}

\* pulls handed to checkout
Pulls ==
    {Str(<<>>), [int |-> 0], [int |-> 7], [int |-> 12]}
    \cup {Str(<<a>>) : a \in PullDigits}
    \cup {Str(<<a, b>>) : a \in PullDigits, b \in PullDigits}
    \cup {Str(<<"m", "a", "s", "t", "e", "r", ":", "a", "a", "a", ",", "1", "1", "1", ":", "b", "b", "b", ",", "2", "2", "2">>), Str(<<"m", "a", "s", "t", "e", "r", ",", "1", "2">>), Str(<<"m", "a", "s", "t", "e", "r", ",", "1", "2", ":", "a", "b", "c">>),
          Str(<<"m", "a", "s", "t", "e", "r", ",", "1", "2", ",", "1", "3">>), Str(<<"1", "2", ":", "a", "b", "c">>), Str(<<"m", "a", "s", "t", "e", "r", ",", "x">>)}

\* a command issued through call, with the exit status it ended with
Cmd(op, args, status) == [op |-> op, args |-> args, status |-> status]

Issued(st, op) == {i \in 1..Len(kcmds) : kcmds[i].op = op /\ kcmds[i].status \in st}

GitIdle ==
    /\ kpc = "idle"
    /\ kbranch = Str(<<>>)
    /\ kpull = Str(<<>>)
    /\ kcache = FALSE
    /\ kclean = FALSE
    /\ krefs = <<>>
    /\ kcheckouts = <<>>
    /\ kattempt = 0
    /\ kcmds = <<>>
    /\ kcwd = "root"
    /\ kstatus = 0
    /\ kresult = "none"
    /\ repos = [k \in {} |-> <<>>]
    /\ main = <<>>
    /\ firstKey = <<>>
    /\ inserts = 0
    /\ prPaths = "none"
    /\ keyOrder = <<>>
    /\ rpc = "idle"
    /\ rtodo = <<>>
    /\ rcur = <<>>
    /\ rlog = <<>>
    /\ rcwd = <<".">>

\* "if bool(branch) == bool(pull): raise ValueError"
\* (mutant: only both being set is refused)
BadArguments_OnlyBoth(branch, pull) == Truthy(branch) /\ Truthy(pull)

BadArguments(branch, pull) == Truthy(branch) = Truthy(pull)

\* "if attempt >= retries - 1: raise; if cpe.returncode != 128: raise"
\* (mutant: every failure is tried again while attempts are left)
FetchGivesUp_AnyStatus(attempt, returncode) == attempt >= Retries - 1

FetchGivesUp(attempt, returncode) ==
    attempt >= Retries - 1 \/ returncode # RetryStatus

\* "zip(refs, checkouts)[1:]"
\* (mutant: the pairs are taken last first)
MergePairs_Reversed(refs, checkouts) ==
    LET n == IF Len(refs) < Len(checkouts) THEN Len(refs) ELSE Len(checkouts)
    IN [i \in 1..(n - 1) |-> <<refs[n + 1 - i], checkouts[n + 1 - i]>>]

MergePairs(refs, checkouts) ==
    LET n == IF Len(refs) < Len(checkouts) THEN Len(refs) ELSE Len(checkouts)
    IN [i \in 1..(n - 1) |-> <<refs[i + 1], checkouts[i + 1]>>]

\* a command of checkout raised CalledProcessError, which checkout lets go
CheckoutFails(status) ==
    /\ kstatus' = status
    /\ kresult' = "CalledProcessError"
    /\ kpc' = "done"

\* checkout up to the first command: the arguments are checked and the
\* reference plan is made
checkout_begin(branch, pull, git_cache, clean) ==
    /\ kpc = "idle"
    /\ kbranch' = branch
    /\ kpull' = pull
    /\ kcache' = git_cache
    /\ kclean' = clean
    /\ LET plan == IF Truthy(pull) THEN pull_ref(pull) ELSE branch_ref(branch)
       IN IF BadArguments(branch, pull) \/ plan.err # "none"
          THEN /\ kresult' = "ValueError"
               /\ kpc' = "done"
               /\ UNCHANGED <<krefs, kcheckouts>>
          ELSE /\ krefs' = plan.refs
               /\ kcheckouts' = plan.checkouts
               /\ kpc' = "init"
               /\ UNCHANGED kresult
    /\ UNCHANGED <<kattempt, kcmds, kcwd, kstatus>>
    /\ UNCHANGED <<ledgerVars, callVars, bootVars, reposVars, rootVars>>

\* "git init" (with a cache: "git init --separate-git-dir" and "rm -f
\* index.lock"), then os.chdir(repo)
checkout_init ==
    /\ kpc = "init"
    /\ \/ /\ kcmds' = IF kcache
                      THEN kcmds \o <<Cmd("init", <<>>, 0), Cmd("rm", <<>>, 0)>>
                      ELSE Append(kcmds, Cmd("init", <<>>, 0))
          /\ kcwd' = "repo"
          /\ kpc' = IF kclean THEN "clean" ELSE "config"
          /\ UNCHANGED <<kstatus, kresult>>
       \/ /\ kcmds' = Append(kcmds, Cmd("init", <<>>, 1))
          /\ CheckoutFails(1)
          /\ UNCHANGED kcwd
       \/ /\ kcache
          /\ kcmds' = kcmds \o <<Cmd("init", <<>>, 0), Cmd("rm", <<>>, 1)>>
          /\ CheckoutFails(1)
          /\ UNCHANGED kcwd
    /\ UNCHANGED <<kbranch, kpull, kcache, kclean, krefs, kcheckouts, kattempt>>
    /\ UNCHANGED <<ledgerVars, callVars, bootVars, reposVars, rootVars>>

\* "if clean: git clean -dfx; git reset --hard"
checkout_clean ==
    /\ kpc = "clean"
    /\ \/ /\ kcmds' = kcmds \o <<Cmd("clean", <<>>, 0), Cmd("reset", <<>>, 0)>>
          /\ kpc' = "config"
          /\ UNCHANGED <<kstatus, kresult>>
       \/ /\ kcmds' = Append(kcmds, Cmd("clean", <<>>, 1))
          /\ CheckoutFails(1)
       \/ /\ kcmds' = kcmds \o <<Cmd("clean", <<>>, 0), Cmd("reset", <<>>, 1)>>
          /\ CheckoutFails(1)
    /\ UNCHANGED <<kbranch, kpull, kcache, kclean, krefs, kcheckouts, kattempt, kcwd>>
    /\ UNCHANGED <<ledgerVars, callVars, bootVars, reposVars, rootVars>>

\* "git config --local user.name ...; git config --local user.email ..."
checkout_config ==
    /\ kpc = "config"
    /\ \/ /\ kcmds' = kcmds \o <<Cmd("config", <<>>, 0), Cmd("config", <<>>, 0)>>
          /\ kpc' = "fetch"
          /\ UNCHANGED <<kstatus, kresult>>
       \/ /\ kcmds' = Append(kcmds, Cmd("config", <<>>, 1))
          /\ CheckoutFails(1)
       \/ /\ kcmds' = kcmds \o <<Cmd("config", <<>>, 0), Cmd("config", <<>>, 1)>>
          /\ CheckoutFails(1)
    /\ UNCHANGED <<kbranch, kpull, kcache, kclean, krefs, kcheckouts, kattempt, kcwd>>
    /\ UNCHANGED <<ledgerVars, callVars, bootVars, reposVars, rootVars>>

\* one round of "for attempt in range(retries)": git fetch and its handler
checkout_fetch ==
    /\ kpc = "fetch"
    /\ kattempt < Retries
    /\ \/ /\ kcmds' = Append(kcmds, Cmd("fetch", krefs, 0))
          /\ kpc' = "checkout"
          /\ UNCHANGED <<kattempt, kstatus, kresult>>
       \/ \E status \in FailStatuses :
             /\ kcmds' = Append(kcmds, Cmd("fetch", krefs, status))
             /\ IF FetchGivesUp(kattempt, status)
                THEN /\ CheckoutFails(status)
                     /\ UNCHANGED kattempt
                ELSE \* random_sleep(attempt), then the next attempt
                     /\ kattempt' = kattempt + 1
                     /\ kstatus' = status
                     /\ UNCHANGED <<kpc, kresult>>
    /\ UNCHANGED <<kbranch, kpull, kcache, kclean, krefs, kcheckouts, kcwd>>
    /\ UNCHANGED <<ledgerVars, callVars, bootVars, reposVars, rootVars>>

\* "git checkout -B test checkouts[0]"
checkout_checkout ==
    /\ kpc = "checkout"
    /\ \/ /\ kcmds' = Append(kcmds, Cmd("checkout", <<kcheckouts[1]>>, 0))
          /\ kpc' = "merge"
          /\ UNCHANGED <<kstatus, kresult>>
       \/ \E status \in FailStatuses :
             /\ kcmds' = Append(kcmds, Cmd("checkout", <<kcheckouts[1]>>, status))
             /\ CheckoutFails(status)
    /\ UNCHANGED <<kbranch, kpull, kcache, kclean, krefs, kcheckouts, kattempt, kcwd>>
    /\ UNCHANGED <<ledgerVars, callVars, bootVars, reposVars, rootVars>>

\* one round of "for ref, head in zip(refs, checkouts)[1:]: git merge --no-ff",
\* or the end of the loop and of checkout
checkout_merge ==
    /\ kpc = "merge"
    /\ LET pairs == MergePairs(krefs, kcheckouts)
           i == Cardinality(Issued({0}, "merge")) + 1
       IN IF i > Len(pairs)
          THEN /\ kresult' = "returned"
               /\ kpc' = "done"
               /\ UNCHANGED <<kcmds, kstatus>>
          ELSE \/ /\ kcmds' = Append(kcmds, Cmd("merge", pairs[i], 0))
                  /\ UNCHANGED <<kpc, kstatus, kresult>>
               \/ \E status \in FailStatuses :
                     /\ kcmds' = Append(kcmds, Cmd("merge", pairs[i], status))
                     /\ CheckoutFails(status)
    /\ UNCHANGED <<kbranch, kpull, kcache, kclean, krefs, kcheckouts, kattempt, kcwd>>
    /\ UNCHANGED <<ledgerVars, callVars, bootVars, reposVars, rootVars>>

(***************************************************************************)
(* Repos, parse_repos, pr_paths                                            *)
(***************************************************************************)
\* s.startswith(prefix)
StartsWith(s, prefix) ==
    Len(s) >= Len(prefix) /\ SubSeq(s, 1, Len(prefix)) = prefix

\* s[len(prefix):]
DropPrefix(s, prefix) == SubSeq(s, Len(prefix) + 1, Len(s))

\* s.replace(old, new) for one-character strings
Replace(s, old, new) == [i \in 1..Len(s) |-> IF s[i] = old THEN new ELSE s[i]]

\* os.path.join(a, b) for a relative b
PathJoin(a, b) == IF Len(a) = 0 THEN b ELSE a \o <<"/">> \o b

\* pr_paths: the prefix of the repository
RepoPrefix(repo) ==
    IF repo \in {<<"k", "8", "s", ".", "i", "o", "/", "k", "u", "b", "e", "r", "n", "e", "t", "e", "s">>, <<"k", "u", "b", "e", "r", "n", "e", "t", "e", "s", "/", "k", "u", "b", "e", "r", "n", "e", "t", "e", "s">>} THEN <<>>
    ELSE IF StartsWith(repo, <<"k", "8", "s", ".", "i", "o", "/">>) THEN DropPrefix(repo, <<"k", "8", "s", ".", "i", "o", "/">>)
    ELSE IF StartsWith(repo, <<"k", "u", "b", "e", "r", "n", "e", "t", "e", "s", "/">>) THEN DropPrefix(repo, <<"k", "u", "b", "e", "r", "n", "e", "t", "e", "s", "/">>)
    ELSE IF StartsWith(repo, <<"g", "i", "t", "h", "u", "b", ".", "c", "o", "m", "/">>)
    THEN Replace(DropPrefix(repo, <<"g", "i", "t", "h", "u", "b", ".", "c", "o", "m", "/">>), "/", "_")
    ELSE Replace(repo, "/", "_")

\* pr_paths: the path segment of the pull under <base>/pull
PullSegment(repo, pull) ==
    LET pr_nums == pull_numbers(Str(pull))
    IN IF Len(pr_nums) > 1 THEN PathJoin(RepoPrefix(repo), <<"b", "a", "t", "c", "h">>)
       ELSE IF Len(pr_nums) = 1 THEN PathJoin(RepoPrefix(repo), pr_nums[1])
       ELSE <<"I", "n", "d", "e", "x", "E", "r", "r", "o", "r">>

\* parse_repos: what "--repo=name=commits" becomes; an argument without
\* "=commits" is given as the empty string of commits
ParsedRepo(commitsText) ==
    IF Len(commitsText) = 0 THEN <<Str(<<"m", "a", "s", "t", "e", "r">>), Str(<<>>)>>
    ELSE LET commits == Split(commitsText, ",")
         IN IF Len(commits) = 1 THEN <<Str(commits[1]), Str(<<>>)>>
            ELSE <<Str(<<>>), Str(Join(commits, ","))>>

\* repositories named on the command line
RepoNames == {<<"k", "8", "s", ".", "i", "o", "/", "k", "u", "b", "e", "r", "n", "e", "t", "e", "s">>, <<"k", "8", "s", ".", "i", "o", "/", "t", "e", "s", "t", "-", "i", "n", "f", "r", "a">>, <<"g", "i", "t", "h", "u", "b", ".", "c", "o", "m", "/", "f", "o", "o", "/", "b", "a", "r">>}

\* the commits given for a repository
CommitTexts ==
    {<<>>, <<"m", "a", "s", "t", "e", "r">>, <<"m", "a", "s", "t", "e", "r", ":", "a", "a", "a">>,
     <<"m", "a", "s", "t", "e", "r", ",", "1", "2">>, <<"m", "a", "s", "t", "e", "r", ",", "1", "2", ":", "a", "b", "c">>, <<"m", "a", "s", "t", "e", "r", ":", "a", "a", "a", ",", "1", "2">>, <<"m", "a", "s", "t", "e", "r", ":", "a", "a", "a", ",", "1", "2", ":", "a", "b", "c">>,
     <<"m", "a", "s", "t", "e", "r", ",", "1", "2", ",", "1", "3">>, <<"m", "a", "s", "t", "e", "r", ",", "1", "2", ":", "a", "b", "c", ",", "1", "3">>, <<"m", "a", "s", "t", "e", "r", ":", "a", "a", "a", ",", "1", "2", ",", "1", "3">>,
     <<"m", "a", "s", "t", "e", "r", ":", "a", "a", "a", ",", "1", "2", ":", "a", "b", "c", ",", "1", "3", ":", "d", "e", "f">>}

\* Repos.__setitem__: "if not self: self.main = k"
\* (mutant: main follows every insertion)
MainAfter_Always(dict, old, k) == k

MainAfter(dict, old, k) == IF DOMAIN dict = {} THEN k ELSE old

\* ret[this_repo] = ...
repos_setitem(k, v) ==
    /\ inserts < MaxInserts
    /\ prPaths = "none"
    /\ rpc = "idle"
    /\ main' = MainAfter(repos, main, k)
    /\ repos' = [x \in DOMAIN repos \cup {k} |-> IF x = k THEN v ELSE repos[x]]
    /\ firstKey' = IF inserts = 0 THEN k ELSE firstKey
    /\ inserts' = inserts + 1
    /\ keyOrder' = IF k \in DOMAIN repos THEN keyOrder ELSE Append(keyOrder, k)
    /\ UNCHANGED prPaths
    /\ UNCHANGED <<ledgerVars, callVars, bootVars, checkoutVars, rootVars>>

\* bootstrap: "if repos and repos[repos.main][1]: paths = pr_paths(...)"
pr_paths ==
    /\ prPaths = "none"
    /\ DOMAIN repos # {}
    /\ Truthy(repos[main][2])
    /\ prPaths' = PullSegment(main, StrOf(repos[main][2]))
    /\ UNCHANGED <<repos, main, firstKey, inserts, keyOrder>>
    /\ UNCHANGED <<ledgerVars, callVars, bootVars, checkoutVars, rootVars>>

(***************************************************************************)
(* setup_root: every repository of the dictionary is checked out           *)
(***************************************************************************)
\* os.path.realpath(root)
RootDir == <<"/", "r", "o", "o", "t">>

\* the orders in which a dict may hand out its keys: items() of a dict
\* promises no order, whatever the order of the insertions was
ItemOrders(dict) ==
    {o \in [1..Cardinality(DOMAIN dict) -> DOMAIN dict] :
        \A i, j \in 1..Cardinality(DOMAIN dict) : o[i] = o[j] => i = j}

\* a setup_root that would stay where the last checkout left the process
FinalDir_Stay(dict, m, cwd) == cwd

\* "if len(repos) > 1: os.chdir(root_dir); os.chdir(repos.main)"
FinalDir(dict, m, cwd) ==
    IF Cardinality(DOMAIN dict) > 1 THEN PathJoin(RootDir, m) ELSE cwd

\* the commit texts of the repositories handed to setup_root
RootTexts == {<<"m", "a", "s", "t", "e", "r">>, <<"m", "a", "s", "t", "e", "r", ",", "1", "2">>}

\* "for repo, (branch, pull) in repos.items()": items() is evaluated once
setup_root_begin ==
    /\ rpc = "idle"
    /\ prPaths = "none"
    /\ \E o \in ItemOrders(repos) : rtodo' = o
    /\ rpc' = "loop"
    /\ UNCHANGED <<rcur, rlog, rcwd>>
    /\ UNCHANGED <<ledgerVars, callVars, bootVars, checkoutVars, reposVars>>

\* the head of the loop: "os.chdir(root_dir)" and the call of checkout up to
\* its ValueError; after the last item the process goes to the main repository
setup_root_loop ==
    /\ rpc = "loop"
    /\ IF Len(rtodo) = 0
       THEN /\ rcwd' = FinalDir(repos, main, rcwd)
            /\ rpc' = "returned"
            /\ UNCHANGED <<rtodo, rcur>>
       ELSE /\ rcur' = Head(rtodo)
            /\ rtodo' = Tail(rtodo)
            /\ rcwd' = RootDir
            /\ rpc' = IF BadArguments(repos[Head(rtodo)][1], repos[Head(rtodo)][2])
                      THEN "raised" ELSE "init"
    /\ UNCHANGED rlog
    /\ UNCHANGED <<ledgerVars, callVars, bootVars, checkoutVars, reposVars>>

\* checkout: "call([git, 'init', repo]); os.chdir(repo)"
setup_root_init ==
    /\ rpc = "init"
    /\ rlog' = Append(rlog, [repo |-> rcur, op |-> "init"])
    /\ \/ /\ rcwd' = PathJoin(rcwd, rcur)
          /\ rpc' = "fetch"
       \/ /\ rpc' = "raised"
          /\ UNCHANGED rcwd
    /\ UNCHANGED <<rtodo, rcur>>
    /\ UNCHANGED <<ledgerVars, callVars, bootVars, checkoutVars, reposVars>>

\* checkout: the fetch loop, ending with a fetch that succeeded or with the
\* failure that is raised
setup_root_fetch ==
    /\ rpc = "fetch"
    /\ rlog' = Append(rlog, [repo |-> rcur, op |-> "fetch"])
    /\ rpc' \in {"checkout", "raised"}
    /\ UNCHANGED <<rtodo, rcur, rcwd>>
    /\ UNCHANGED <<ledgerVars, callVars, bootVars, checkoutVars, reposVars>>

\* checkout: "call([git, 'checkout', '-B', 'test', checkouts[0]])"
setup_root_checkout ==
    /\ rpc = "checkout"
    /\ rlog' = Append(rlog, [repo |-> rcur, op |-> "checkout"])
    /\ rpc' \in {IF Truthy(repos[rcur][2]) THEN "merge" ELSE "loop", "raised"}
    /\ UNCHANGED <<rtodo, rcur, rcwd>>
    /\ UNCHANGED <<ledgerVars, callVars, bootVars, checkoutVars, reposVars>>

\* checkout: the merges of the pulls
setup_root_merge ==
    /\ rpc = "merge"
    /\ rlog' = Append(rlog, [repo |-> rcur, op |-> "merge"])
    /\ rpc' \in {"loop", "raised"}
    /\ UNCHANGED <<rtodo, rcur, rcwd>>
    /\ UNCHANGED <<ledgerVars, callVars, bootVars, checkoutVars, reposVars>>

(***************************************************************************)
(* Specification of the ledger under two concurrent writers                *)
(***************************************************************************)
\* the documents a history path may hold before the writers start
InitObjects ==
    {[gen |-> 0, doc |-> <<>>, corrupt |-> FALSE]}
    \cup {[gen |-> 1, doc |-> PriorDoc(n), corrupt |-> FALSE] :
            n \in {1, HistoryCap - 1, HistoryCap + Over}}
    \cup {[gen |-> 1, doc |-> <<>>, corrupt |-> TRUE]}

LedgerIdle ==
    /\ acceptLog = [p \in LedgerPaths |-> <<>>]
    /\ wpc = [w \in Writers |-> "idle"]
    /\ wpath = [w \in Writers |-> "result_cache"]
    /\ wpassed = [w \in Writers |-> FALSE]
    /\ wt = [w \in Writers |-> 0]
    /\ werrors = [w \in Writers |-> 0]
    /\ wgen = [w \in Writers |-> 0]
    /\ wcache = [w \in Writers |-> <<>>]
    /\ wprobed = [w \in Writers |-> 0]

InitLedger ==
    /\ \E o \in InitObjects :
         store = [p \in LedgerPaths |->
                    IF p = "result_cache" THEN o
                    ELSE [gen |-> 0, doc |-> <<>>, corrupt |-> FALSE]]
    /\ LedgerIdle
    /\ CallIdle
    /\ BootIdle
    /\ GitIdle

NextLedger ==
    \E w \in Writers :
        \/ append_result_begin(w, "result_cache", w = 1)
        \/ append_result_loop(w)
        \/ append_result_stat(w)
        \/ append_result_cat(w)
        \/ append_result_upload(w)

SpecLedger == InitLedger /\ [][NextLedger]_vars

(***************************************************************************)
(* Specification of one _call                                              *)
(***************************************************************************)
InitCall ==
    /\ store = [p \in LedgerPaths |-> [gen |-> 0, doc |-> <<>>, corrupt |-> FALSE]]
    /\ LedgerIdle
    /\ CallIdle
    /\ BootIdle
    /\ GitIdle

SpecCall == InitCall /\ [][NextCall]_vars

\* the supervisor takes its next step when it can and the clock keeps
\* advancing; the command owes nothing
FairSpecCall == SpecCall /\ WF_vars(SupervisorNext) /\ SF_vars(tick)

(***************************************************************************)
(* Specification of one bootstrap run                                      *)
(***************************************************************************)
\* the documents the history paths may hold when the build finishes
BootObjects ==
    {[gen |-> 0, doc |-> <<>>, corrupt |-> FALSE],
     [gen |-> 1, doc |-> PriorDoc(1), corrupt |-> FALSE],
     [gen |-> 1, doc |-> <<>>, corrupt |-> TRUE]}

InitBoot ==
    /\ \E o \in BootObjects : store = [p \in LedgerPaths |-> o]
    /\ LedgerIdle
    /\ CallIdle
    /\ BootIdle
    /\ GitIdle

NextBoot ==
    \/ \E kind \in {"bare", "ci", "pr"}, up \in BOOLEAN, withTimeout \in BOOLEAN :
          boot_begin(kind, up, withTimeout)
    \/ boot_setup_root
    \/ boot_find_version
    \/ boot_setup_magic_environment
    \/ boot_setup_credentials
    \/ boot_start
    \/ boot_job
    \/ boot_retry_credentials
    \/ boot_finish_artifacts
    \/ \E path \in LedgerPaths : boot_append_result(path)
    \/ append_result_loop(Me)
    \/ append_result_stat(Me)
    \/ append_result_cat(Me)
    \/ append_result_upload(Me)
    \/ boot_append_returns
    \/ boot_append_raises
    \/ boot_finish_finished
    \/ \E path \in {"latest-build.txt", "pr-latest-build.txt"} : boot_finish_latest(path)
    \/ boot_build_log
    \/ boot_end

SpecBoot == InitBoot /\ [][NextBoot]_vars

(***************************************************************************)
(* Specification of one checkout                                           *)
(***************************************************************************)
InitCheckout ==
    /\ store = [p \in LedgerPaths |-> [gen |-> 0, doc |-> <<>>, corrupt |-> FALSE]]
    /\ LedgerIdle
    /\ CallIdle
    /\ BootIdle
    /\ GitIdle

NextCheckout ==
    \/ \E branch \in Branches, pull \in Pulls, git_cache \in BOOLEAN, clean \in BOOLEAN :
          checkout_begin(branch, pull, git_cache, clean)
    \/ checkout_init
    \/ checkout_clean
    \/ checkout_config
    \/ checkout_fetch
    \/ checkout_checkout
    \/ checkout_merge

SpecCheckout == InitCheckout /\ [][NextCheckout]_vars

(***************************************************************************)
(* Specification of a Repos dictionary being filled and used               *)
(***************************************************************************)
NextRepos ==
    \/ \E k \in RepoNames, text \in CommitTexts : repos_setitem(k, ParsedRepo(text))
    \/ pr_paths

SpecRepos == InitCheckout /\ [][NextRepos]_vars

(***************************************************************************)
(* Specification of setup_root over a Repos dictionary                     *)
(***************************************************************************)
NextSetupRoot ==
    \/ \E k \in RepoNames, text \in RootTexts : repos_setitem(k, ParsedRepo(text))
    \/ setup_root_begin
    \/ setup_root_loop
    \/ setup_root_init
    \/ setup_root_fetch
    \/ setup_root_checkout
    \/ setup_root_merge

SpecSetupRoot == InitCheckout /\ [][NextSetupRoot]_vars

(***************************************************************************)
(* Properties of the ledger                                                *)
(***************************************************************************)
HasRecordOf(doc, w) == \E i \in 1..Len(doc) : doc[i].buildnumber = BuildOf(w)

\* C1: with two append_result calls racing on one path, no two accepted
\* writes replace the same generation, a writer holds a generation for its
\* read or upload only if it probed it after its last failure (a rejected
\* writer starts again from stat), and once both calls have returned after an
\* accepted write the stored document holds the records of both.
C1_NoLostRecord ==
    /\ \A p \in LedgerPaths : \A i, j \in 1..Len(acceptLog[p]) :
          i # j => acceptLog[p][i].gen # acceptLog[p][j].gen
    /\ \A w \in Writers : wpc[w] \in {"cat", "upload"} => wprobed[w] = werrors[w]
    /\ (\A w \in Writers : wpc[w] = "returned")
          => \A w \in Writers : HasRecordOf(store["result_cache"].doc, w)

\* both writers returned, and one of them had to start over at least once
C1_Witness ==
    /\ \A w \in Writers : wpc[w] = "returned"
    /\ \E w \in Writers : werrors[w] > 0
    /\ Len(acceptLog["result_cache"]) >= 2

\* C2: every document an accepted upload of append_result stores has at most
\* 300 entries and ends with the new record; it is the document read followed
\* by the record, and when the document read had 300 entries or more it is
\* the last 299 of them, in order, followed by the record.
C2_CappedOldestDropped ==
    [][\A w \in Writers : \A p \in LedgerPaths :
          (/\ wpc[w] = "upload"
           /\ wpath[w] = p
           /\ Len(acceptLog'[p]) = Len(acceptLog[p]) + 1
           /\ acceptLog'[p][Len(acceptLog'[p])].w = w)
          => LET read == wcache[w]
                 doc == store'[p].doc
                 rec == ResultRecord(BuildOf(w), "v", wpassed[w])
             IN /\ Len(doc) <= 300
                /\ Len(doc) >= 1
                /\ doc[Len(doc)] = rec
                /\ Len(read) < 300 => doc = Append(read, rec)
                /\ Len(read) >= 300
                     => doc = Append(SubSeq(read, Len(read) - 298, Len(read)), rec)
      ]_vars

\* a stored history of 300 entries whose oldest entries were dropped by an
\* accepted write
C2_Witness ==
    /\ Len(acceptLog["result_cache"]) >= 1
    /\ Len(store["result_cache"].doc) = 300
    /\ store["result_cache"].doc[1].buildnumber > 1
    /\ store["result_cache"].doc[300].buildnumber > 1000

C23_CorruptDocument ==
    [][\A w \in Writers :
          LET p == wpath[w]
          IN /\ (wpc[w] = "cat" /\ wpc'[w] # "cat"
                   /\ store[p].gen = wgen[w] /\ store[p].corrupt
                   /\ werrors'[w] = werrors[w])
                   => /\ wpc'[w] = "upload"
                      /\ wcache'[w] = <<>>
             /\ (wpc[w] = "upload" /\ store[p].corrupt
                   /\ Len(acceptLog'[p]) = Len(acceptLog[p]) + 1
                   /\ acceptLog'[p][Len(acceptLog'[p])].w = w)
                   => /\ wgen[w] # 0
                      /\ wgen[w] = store[p].gen
                      /\ store'[p].doc
                            = <<ResultRecord(BuildOf(w), "v", wpassed[w])>>
                      /\ ~store'[p].corrupt
      ]_vars

\* writer 1 replaced generation 1, which did not decode, by a history of one
\* record and returned
C23_Witness ==
    /\ wpc[1] = "returned"
    /\ acceptLog["result_cache"] = <<[gen |-> 1, w |-> 1]>>
    /\ store["result_cache"].doc = <<ResultRecord(BuildOf(1), "v", wpassed[1])>>

\* records of writer w's build in a document
RecordsOf(doc, w) == {i \in 1..Len(doc) : doc[i].buildnumber = BuildOf(w)}

\* accepted writes of writer w to a path
AcceptedOf(p, w) == {i \in 1..Len(acceptLog[p]) : acceptLog[p][i].w = w}

C28_RecordAtMostOnce ==
    \A w \in Writers : \A p \in LedgerPaths :
        /\ Cardinality(RecordsOf(store[p].doc, w)) <= 1
        /\ Cardinality(AcceptedOf(p, w)) <= 1

(***************************************************************************)
(* Properties of the process supervisor                                    *)
(***************************************************************************)
CallDone == cpc \in {"returned", "raised"}

BootEnded == bpc = "ended"

Pointers == {"latest-build.txt", "pr-latest-build.txt"}

\* the job script ran, returned status zero and was not timed out
JobPassed == jobRan /\ jobNatural = 0 /\ ~jobTimedOut

\* a bare CI job with upload configured ended and no command failed
BareRunAllFine == BootEnded /\ repoKind = "bare" /\ upload /\ ~cmdFailed

\* the publications of the run other than artifacts and the build log
MainPubs ==
    SelectSeq(pubs, LAMBDA x : x \notin {"artifacts", "build-log.txt"})

C5_PointerIsLast ==
    upload =>
        \A i \in 1..Len(pubs) : \A j \in 1..Len(pubs) :
            (i < j /\ pubs[i] \in Pointers) => pubs[j] \in Pointers

\* C6: when a step before the job script raised and upload is configured,
\* bootstrap ends only after finish has run, never publishes a passed
\* record, and ends by re-raising the exception it caught.
C6_FinishAfterEarlyFailure ==
    (BootEnded /\ upload /\ excType # "none")
        => /\ finishEntered
           /\ FinishedRecord(TRUE) \notin Range(pubs)
           /\ (\E i \in 1..Len(pubs) : pubs[i] = FinishedRecord(FALSE))
                 => outcome = "raised_orig"

\* C7: the finished record and the ledger record of the build say passed
\* exactly when the job script ran and returned zero without timing out; a
\* job script that ran never leaves an exception behind, finish is entered
\* after it whenever upload is configured, and a bootstrap that goes through
\* to its end exits with 0 exactly when the job script passed.
C7_JobStatusIsSignal ==
    /\ FinishedRecord(TRUE) \in Range(pubs) => JobPassed
    /\ FinishedRecord(FALSE) \in Range(pubs) => ~JobPassed
    /\ \A p \in LedgerPaths : \A i \in 1..Len(store[p].doc) :
          store[p].doc[i].buildnumber = BuildOf(Me)
             => store[p].doc[i].passed = JobPassed
    /\ jobRan => excType = "none"
    /\ (jobRan /\ upload /\ bpc \notin {"after_try", "finish"}) => finishEntered
    /\ (jobRan /\ BootEnded) => outcome # "raised_orig"
    /\ (jobRan /\ outcome = "exit0") => JobPassed
    /\ (jobRan /\ outcome = "exit1" /\ JobPassed)
          => (upload /\ FinishedRecord(TRUE) \notin Range(pubs))

\* the job script returned zero but was timed out: the ledger and the finished
\* record say failed and bootstrap exits with 1
C7_Witness ==
    /\ BootEnded
    /\ jobRan /\ jobNatural = 0 /\ jobTimedOut
    /\ HasRecordOf(store["result_cache"].doc, Me)
    /\ FinishedRecord(FALSE) \in Range(pubs)
    /\ "latest-build.txt" \in Range(pubs)
    /\ outcome = "exit1"

\* C18: once finish is entered no exception leaves append_result, and a
\* bootstrap that has entered finish ends only after the finished record was
\* written or its upload failed.
C18_LedgerFailureNotEscalated ==
    /\ finishEntered => wpc[Me] # "raised"
    /\ (BootEnded /\ finishEntered) => bpc \notin {"append", "append_pr"}
    /\ (BootEnded /\ finishEntered /\ outcome = "exit0")
          => FinishedRecord(TRUE) \in Range(pubs)

\* the steps bootstrap takes before the job script, and the job script
BeforeJob == {"setup_root", "find_version", "setup_env", "setup_credentials", "start"}

\* C25: the job script is invoked only after root setup, environment setup,
\* credential setup and, when upload is configured, the upload of
\* started.json have all succeeded, one after the other in that order; a
\* failure of any of them leaves the try block and the job script is never
\* invoked in that run.
C25_JobAfterSetup ==
    /\ [](jobRan => /\ excType = "none"
                    /\ setupCreds
                    /\ (upload => Len(pubs) > 0 /\ pubs[1] = "started.json"))
    /\ [](excType \notin {"none", "job_script"} => ~jobRan /\ bpc # "job")
    /\ [][/\ (jobRan' /\ ~jobRan) => bpc = "job"
          /\ (bpc' = "job" /\ bpc # "job")
                => /\ bpc = (IF upload THEN "start" ELSE "setup_credentials")
                   /\ excType' = "none"
                   /\ setupCreds'
                   /\ (upload => "started.json" \in Range(pubs') /\ pubs = <<>>)
          /\ (bpc' = "start" /\ bpc # "start")
                => bpc = "setup_credentials" /\ setupCreds' /\ excType' = "none"
          /\ (bpc' = "setup_credentials" /\ bpc # "setup_credentials")
                => bpc = "setup_env" /\ excType' = "none"
          /\ (bpc' = "setup_env" /\ bpc # "setup_env")
                => bpc \in {"setup_root", "find_version"} /\ excType' = "none"
          /\ (bpc' = "find_version" /\ bpc # "find_version")
                => bpc = "setup_root" /\ excType' = "none"
          /\ (bpc \in BeforeJob /\ excType' # "none") => bpc' = "after_try"
          /\ bpc \notin (BeforeJob \cup {"init", "job"}) => bpc' \notin (BeforeJob \cup {"job"})
         ]_vars

\* the job script has run in a pull-request build, after both objects of
\* start were uploaded
C25_Witness ==
    /\ jobRan /\ upload /\ repoKind = "pr" /\ setupCreds
    /\ pubs[1] = "started.json"

\* C27: a latest pointer is written only after finished.json was uploaded
\* in the same run; when the upload of finished.json fails, no pointer is
\* written by that run.
C27_PointerAfterFinished ==
    /\ \A j \in 1..Len(pubs) :
          pubs[j] \in Pointers
             => \E i \in 1..(j - 1) : pubs[i] \in {FinishedRecord(TRUE), FinishedRecord(FALSE)}
    /\ (BootEnded /\ Range(pubs) \cap {FinishedRecord(TRUE), FinishedRecord(FALSE)} = {})
          => Range(pubs) \cap Pointers = {}
    /\ latestTodo # {} => Range(pubs) \cap {FinishedRecord(TRUE), FinishedRecord(FALSE)} # {}

\* a run wrote a pointer, and before it finished.json
C27_Witness ==
    /\ BootEnded
    /\ "latest-build.txt" \in Range(pubs)
    /\ FinishedRecord(FALSE) \in Range(pubs)

\* C29: bootstrap returns normally only when the job script ran and
\* returned zero and, with upload configured, neither finish nor the upload
\* of the build log let a command failure out; every other run that ends,
\* ends with a non-zero exit status or a raised exception.
C29_NormalEnd ==
    /\ outcome = "exit0"
          => /\ BootEnded
             /\ JobPassed
             /\ excType = "none"
             /\ upload => /\ finishEntered
                          /\ FinishedRecord(TRUE) \in Range(pubs)
                          /\ pubs[Len(pubs)] = "build-log.txt"
    /\ BootEnded => outcome \in {"exit0", "exit1", "raised_orig", "raised_other"}
    /\ (BootEnded /\ ~JobPassed) => outcome \in {"exit1", "raised_orig", "raised_other"}
    /\ (BootEnded /\ upload /\ FinishedRecord(TRUE) \notin Range(pubs))
          => outcome \in {"exit1", "raised_orig", "raised_other"}
    /\ (BootEnded /\ upload /\ "build-log.txt" \notin Range(pubs))
          => outcome \in {"exit1", "raised_orig", "raised_other"}

\* a run with upload configured returned normally although a command whose
\* failure is caught inside finish had failed
C29_Witness ==
    /\ outcome = "exit0" /\ upload /\ JobPassed /\ cmdFailed
    /\ pubs[Len(pubs)] = "build-log.txt"

(***************************************************************************)
(* Properties of checkout and of the reference plans                       *)
(***************************************************************************)
\* positions in kcmds of the commands with the given name
CmdsOf(op) == {i \in 1..Len(kcmds) : kcmds[i].op = op}

\* the fetch, checkout and merge commands issued, in order
GitSteps == SelectSeq(kcmds, LAMBDA c : c.op \in {"fetch", "checkout", "merge"})

\* fetch commands issued up to position i
FetchesUpTo(i) == Cardinality({j \in CmdsOf("fetch") : j <= i})

\* C11: at most 3 fetches are issued; after a failed fetch the next command,
\* if there is one, is another fetch, and only when the failure had status
\* 128 and was the first or second attempt (and then checkout is still in
\* its fetch loop); a fetch failing with another status, or a third failing
\* fetch, is the last command and checkout ends with that failure.
C11_FetchRetry ==
    /\ Cardinality(CmdsOf("fetch")) <= 3
    /\ \A i \in CmdsOf("fetch") :
          kcmds[i].status # 0 =>
             /\ i < Len(kcmds) =>
                   /\ kcmds[i + 1].op = "fetch"
                   /\ kcmds[i].status = 128
                   /\ FetchesUpTo(i) < 3
             /\ (kcmds[i].status # 128 \/ FetchesUpTo(i) = 3) =>
                   /\ i = Len(kcmds)
                   /\ kpc = "done"
                   /\ kresult = "CalledProcessError"
                   /\ kstatus = kcmds[i].status
             /\ (kcmds[i].status = 128 /\ FetchesUpTo(i) < 3 /\ i = Len(kcmds))
                   => kpc = "fetch"

\* three fetches failed with 128 and checkout ended without a checkout command
C11_Witness ==
    /\ Cardinality(CmdsOf("fetch")) = 3
    /\ \A i \in CmdsOf("fetch") : kcmds[i].status = 128
    /\ kresult = "CalledProcessError"
    /\ CmdsOf("checkout") = {}

\* the target the plan has for an entry of a pull list that is not the first
TargetOfEntry(entry) ==
    IF Contains(entry, ":") THEN Split(entry, ":")[2] ELSE <<"r", "e", "f", "s", "/", "p", "r", "/">> \o entry

\* C12: the first checkout or merge comes right after the one successful
\* fetch, which fetched all refs; the checkout is "checkout -B test" of the
\* first target and is issued at most once; the k-th merge issued merges the
\* (k+1)-th (ref, target) pair, which for a pull list is the target of its
\* (k+1)-th entry; every command before a checkout or merge succeeded but for
\* the fetches tried again; a failing checkout or merge is the last command;
\* and a checkout that returned has issued one merge for every remaining pair.
C12_CommandOrder ==
    LET n == Len(GitSteps)
        firstOk == IF \E i \in 1..n : GitSteps[i].status = 0
                   THEN CHOOSE i \in 1..n :
                           GitSteps[i].status = 0
                           /\ \A j \in 1..(i - 1) : GitSteps[j].status # 0
                   ELSE n + 1
    IN /\ \A i \in 1..n :
             /\ i < firstOk => GitSteps[i].op = "fetch"
             /\ i = firstOk =>
                   GitSteps[i].op = "fetch" /\ GitSteps[i].args = krefs
             /\ i = firstOk + 1 =>
                   /\ GitSteps[i].op = "checkout"
                   /\ GitSteps[i].args = <<kcheckouts[1]>>
             /\ i > firstOk + 1 =>
                   LET k == i - firstOk - 1
                   IN /\ GitSteps[i].op = "merge"
                      /\ k + 1 <= Len(kcheckouts)
                      /\ GitSteps[i].args = <<krefs[k + 1], kcheckouts[k + 1]>>
                      /\ (~IsInt(kpull) /\ Contains(kpull.str, ",")) =>
                            GitSteps[i].args[2]
                               = TargetOfEntry(Split(kpull.str, ",")[k + 1])
             /\ (i > firstOk /\ GitSteps[i].status # 0) =>
                   i = n /\ kresult = "CalledProcessError"
       /\ kresult = "returned" =>
             /\ firstOk <= n
             /\ n = firstOk + Len(kcheckouts)
             /\ kcmds[Len(kcmds)].status = 0

\* a checkout of a list of two pulls returned after a fetch that was tried
\* again and two merges
C12_Witness ==
    /\ kresult = "returned"
    /\ Cardinality(CmdsOf("merge")) = 2
    /\ Cardinality(CmdsOf("fetch")) = 2

\* C13: a checkout that was given both a branch and a pull, or neither, has
\* ended with ValueError, has issued no command and has not left the
\* directory it was called in; nothing takes it up again.
C13_BadArgumentsRejected ==
    (kpc # "idle" /\ ((Truthy(kbranch) /\ Truthy(kpull))
                        \/ (~Truthy(kbranch) /\ ~Truthy(kpull))))
        => /\ kpc = "done"
           /\ kresult = "ValueError"
           /\ kcmds = <<>>
           /\ kcwd = "root"
           /\ kattempt = 0

\* checkout was given a branch and a pull and ended with ValueError
C13_Witness ==
    /\ kpc = "done"
    /\ Truthy(kbranch) /\ Truthy(kpull)
    /\ kresult = "ValueError"
    /\ kcmds = <<>>

ExamplePull == Str(<<"m", "a", "s", "t", "e", "r", ":", "a", "a", "a", ",", "1", "1", "1", ":", "b", "b", "b", ",", "2", "2", "2">>)

ExampleTargets == <<<<"a", "a", "a">>, <<"b", "b", "b">>, <<"r", "e", "f", "s", "/", "p", "r", "/", "2", "2", "2">>>>

\* the targets of the checkout and merge commands issued, in order
TargetsApplied ==
    LET steps == SelectSeq(kcmds, LAMBDA c : c.op \in {"checkout", "merge"})
    IN [i \in 1..Len(steps) |-> steps[i].args[Len(steps[i].args)]]

\* C14: for pull = "master:aaa,111:bbb,222" pull_ref returns the refs
\* ["master", "+refs/pull/111/head:refs/pr/111",
\* "+refs/pull/222/head:refs/pr/222"] and the targets ["aaa", "bbb",
\* "refs/pr/222"], and a checkout that returns has applied them as checkout
\* of "aaa", then merge of "bbb", then merge of "refs/pr/222".
C14_ExamplePlan ==
    /\ pull_ref(ExamplePull)
          = Plan(<<<<"m", "a", "s", "t", "e", "r">>, <<"+", "r", "e", "f", "s", "/", "p", "u", "l", "l", "/", "1", "1", "1", "/", "h", "e", "a", "d", ":", "r", "e", "f", "s", "/", "p", "r", "/", "1", "1", "1">>,
                   <<"+", "r", "e", "f", "s", "/", "p", "u", "l", "l", "/", "2", "2", "2", "/", "h", "e", "a", "d", ":", "r", "e", "f", "s", "/", "p", "r", "/", "2", "2", "2">>>>, ExampleTargets)
    /\ (kpull = ExamplePull /\ kpc \notin {"idle", "done"}) =>
          /\ krefs = <<<<"m", "a", "s", "t", "e", "r">>, <<"+", "r", "e", "f", "s", "/", "p", "u", "l", "l", "/", "1", "1", "1", "/", "h", "e", "a", "d", ":", "r", "e", "f", "s", "/", "p", "r", "/", "1", "1", "1">>,
                       <<"+", "r", "e", "f", "s", "/", "p", "u", "l", "l", "/", "2", "2", "2", "/", "h", "e", "a", "d", ":", "r", "e", "f", "s", "/", "p", "r", "/", "2", "2", "2">>>>
          /\ kcheckouts = ExampleTargets
    /\ (kpull = ExamplePull /\ kresult = "returned") =>
          TargetsApplied = ExampleTargets

\* the example pull was checked out to the end
C14_Witness ==
    /\ kpull = ExamplePull
    /\ kresult = "returned"
    /\ TargetsApplied = ExampleTargets

\* C14 as stated: the fetch plan is ["master:aaa",
\* "+refs/pull/222/head:refs/pr/222"].
C14_Original ==
    (kpull = ExamplePull /\ kpc \notin {"idle", "done"}) =>
        /\ krefs = <<<<"m", "a", "s", "t", "e", "r", ":", "a", "a", "a">>, <<"+", "r", "e", "f", "s", "/", "p", "u", "l", "l", "/", "2", "2", "2", "/", "h", "e", "a", "d", ":", "r", "e", "f", "s", "/", "p", "r", "/", "2", "2", "2">>>>
        /\ kcheckouts = ExampleTargets

\* a pull that is one pull number: an integer, or a string of decimal digits
SingleNumber(pull) ==
    IF IsInt(pull) THEN pull.int >= 0
    ELSE /\ Len(pull.str) > 0
         /\ \A i \in 1..Len(pull.str) :
               pull.str[i] \in {"0", "1", "2", "3", "4", "5", "6", "7", "8", "9"}

\* a string of digits without its leading zeros
RECURSIVE NoLeadingZeros(_)
NoLeadingZeros(s) ==
    IF Len(s) > 1 /\ s[1] = "0" THEN NoLeadingZeros(Tail(s)) ELSE s

\* the number a single-number pull names, in decimal
NumberText(pull) ==
    IF IsInt(pull)
    THEN CASE pull.int = 0 -> <<"0">>
           [] pull.int = 7 -> <<"7">>
           [] pull.int = 12 -> <<"1", "2">>
    ELSE NoLeadingZeros(pull.str)

\* C15: for a pull that is a single pull number N, pull_ref returns
\* (["+refs/pull/N/merge"], ["FETCH_HEAD"]), and that is the plan checkout
\* goes on with.
C15_SinglePull ==
    (kpc # "idle" /\ SingleNumber(kpull)) =>
        /\ pull_ref(kpull)
              = Plan(<<<<"+", "r", "e", "f", "s", "/", "p", "u", "l", "l", "/">> \o NumberText(kpull) \o <<"/", "m", "e", "r", "g", "e">>>>,
                     <<<<"F", "E", "T", "C", "H", "_", "H", "E", "A", "D">>>>)
        /\ (Truthy(kpull) /\ kresult # "ValueError") =>
              /\ krefs = <<<<"+", "r", "e", "f", "s", "/", "p", "u", "l", "l", "/">> \o NumberText(kpull) \o <<"/", "m", "e", "r", "g", "e">>>>
              /\ kcheckouts = <<<<"F", "E", "T", "C", "H", "_", "H", "E", "A", "D">>>>

\* the pull "02" was fetched as pull 2 and checked out at FETCH_HEAD
C15_Witness ==
    /\ kpull = Str(<<"0", "2">>)
    /\ kresult = "returned"
    /\ Len(kcmds) > 0
    /\ kcmds[Len(kcmds)] = Cmd("checkout", <<<<"F", "E", "T", "C", "H", "_", "H", "E", "A", "D">>>>, 0)
    /\ \E i \in CmdsOf("fetch") : kcmds[i].args = <<<<"+", "r", "e", "f", "s", "/", "p", "u", "l", "l", "/", "2", "/", "m", "e", "r", "g", "e">>>>

(***************************************************************************)
(* Properties of Repos and of the paths                                    *)
(***************************************************************************)
\* the pull-request numbers a pull list names: its entries after the first,
\* each without its commit
NamedPulls(pull) ==
    LET entries == Split(pull, ",")
    IN {Split(entries[i], ":")[1] : i \in 2..Len(entries)}

\* C16: pr_paths puts the build under <prefix>/batch exactly when the pull
\* list of the main repository names more than one pull-request number, and
\* under <prefix>/<that number> when it names one.
C16_BatchPath ==
    prPaths # "none" =>
        LET pull == StrOf(repos[main][2])
            named == NamedPulls(pull)
        IN /\ (Cardinality(named) > 1)
                 <=> (prPaths = PathJoin(RepoPrefix(main), <<"b", "a", "t", "c", "h">>))
           /\ \A num \in named :
                 named = {num} => prPaths = PathJoin(RepoPrefix(main), num)

\* C17: Repos.main is the empty string before the first insertion and the
\* key of the first insertion ever after.
C17_MainIsFirstInsert ==
    /\ inserts = 0 => main = <<>>
    /\ inserts > 0 => main = firstKey /\ main \in DOMAIN repos

\* two different keys were inserted and main is the first of them
C17_Witness ==
    /\ inserts = 2
    /\ Cardinality(DOMAIN repos) = 2
    /\ main = firstKey

(***************************************************************************)
(* Properties of setup_root                                                *)
(***************************************************************************)
\* the repositories in the order in which setup_root started their checkout
VisitOrder == [i \in 1..Len(SelectSeq(rlog, LAMBDA c : c.op = "init")) |->
                 SelectSeq(rlog, LAMBDA c : c.op = "init")[i].repo]

\* the place of a git command inside one checkout
OpRank(op) == CASE op = "init" -> 1 [] op = "fetch" -> 2
                [] op = "checkout" -> 3 [] op = "merge" -> 4

\* the last command checkout issues for the repository when nothing fails
LastOp(repo) == IF Truthy(repos[repo][2]) THEN "merge" ELSE "checkout"

\* the commands of one repository are issued one after the other, in the
\* order of checkout, each once, and none for a repository outside the dict
OneAfterAnother ==
    /\ \A i \in 1..Len(rlog) : rlog[i].repo \in DOMAIN repos
    /\ \A i, j \in 1..Len(rlog) :
          (i < j /\ rlog[i].repo = rlog[j].repo)
             => /\ OpRank(rlog[i].op) < OpRank(rlog[j].op)
                /\ \A m \in i..j : rlog[m].repo = rlog[i].repo
    /\ \A i \in 1..(Len(rlog) - 1) :
          rlog[i].repo # rlog[i + 1].repo
             => rlog[i].op = LastOp(rlog[i].repo) /\ rlog[i + 1].op = "init"

\* setup_root returned: every repository was checked out to its end and the
\* process is in the directory of the main repository
ReturnedInMain ==
    (rpc = "returned" /\ DOMAIN repos # {})
       => /\ \A k \in DOMAIN repos :
                \E i \in 1..Len(rlog) : rlog[i].repo = k /\ rlog[i].op = LastOp(k)
          /\ rcwd = PathJoin(RootDir, main)
          /\ main = keyOrder[1]

\* C26 (as the code has it): setup_root checks out every repository of the
\* dictionary once, strictly one after another in the order in which the
\* dictionary hands out its items, each checkout complete before the next
\* command is issued, and when it returns the working directory is the
\* main repository, the first one inserted.
C26_OneByOneEndsInMain == OneAfterAnother /\ ReturnedInMain

\* two repositories were checked out, the main one last, and setup_root
\* returned in the main repository
C26_Witness ==
    /\ rpc = "returned"
    /\ Len(keyOrder) = 2
    /\ Len(VisitOrder) = 2
    /\ VisitOrder[2] = main
    /\ rcwd = PathJoin(RootDir, main)

\* C26: setup_root checks out the repositories strictly one after another
\* in the order of their insertion, the main repository first, each
\* checkout complete before the next, and ends in the main repository.
C26_Original ==
    /\ OneAfterAnother
    /\ ReturnedInMain
    /\ \A i \in 1..Len(VisitOrder) : VisitOrder[i] = keyOrder[i]

(***************************************************************************)
(* Further properties of the process supervisor                            *)
(***************************************************************************)
\* C8: a call that sent a terminate never reports success: its status is the
\* child's own exit status when that is not zero and 124 when it is zero, and
\* with check set the call raises.
C8_TimeoutNeverSuccess ==
    (CallDone /\ termSent)
        => /\ reported # 0
           /\ natural # 0 => reported = natural
           /\ natural = 0 => reported = 124
           /\ check => cpc = "raised"

\* a terminated child exited with status 0 and the call raised with 124
C8_Witness ==
    cpc = "raised" /\ termSent /\ natural = 0 /\ reported = 124 /\ check

\* C19: the terminate signal sent when the deadline has passed goes to the
\* direct child alone, no descendant in the group is ever sent it, and from
\* then on the deadline is 15 minutes after the signal; the kill that may
\* follow goes to every process of the group.
C19_TerminateChildOnly ==
    /\ termSent => "TERM" \in signalled["child"]
    /\ "TERM" \notin signalled["descendant"]
    /\ (termSent /\ rem >= 0 /\ sinceTerm <= 900) => rem + sinceTerm = 900
    /\ killSent => \A p \in Group : "KILL" \in signalled[p]
    /\ \A p \in Group : signalled[p] # {} => termSent

\* the terminate signal has just gone to the direct child of a command that
\* is still running, and the deadline is 15 minutes away
C19_Witness ==
    /\ termSent
    /\ childAlive
    /\ signalled = [p \in Group |-> IF p = "child" THEN {"TERM"} ELSE {}]
    /\ rem = 900
    /\ sinceTerm = 0

\* C19 as stated: the terminate signal reaches every process of the group.
C19_Original ==
    termSent => \A p \in Group : "TERM" \in signalled[p]

\* C20: a call with a deadline has sent no signal while no more than 60
\* seconds have passed since it began, whatever deadline it was given.
C20_NoSignalInFirstMinute ==
    (hasEnd /\ \E p \in Group : signalled[p] # {}) => sinceBegin > 60

\* a call given a deadline that had already passed has sent the terminate
\* signal, after more than 60 seconds
C20_Witness ==
    /\ hasEnd
    /\ given < 0
    /\ termSent
    /\ sinceTerm = 0
    /\ sinceBegin > 60

\* C21: a call without a deadline never sends a signal, its timeout flag
\* stays false, and the status it reports is the command's own exit status.
C21_NoDeadlineNoSignal ==
    (cpc # "idle" /\ ~hasEnd) =>
        /\ \A p \in Group : signalled[p] = {}
        /\ ~termSent /\ ~killSent
        /\ ~timeout
        /\ CallDone => reported = natural
        /\ cpc = "raised" => natural # 0

\* a call without a deadline ended by raising with the command's status 1
C21_Witness ==
    /\ ~hasEnd
    /\ cpc = "raised"
    /\ natural = 1
    /\ reported = 1

\* C9: every _call with a deadline eventually returns or raises, whatever
\* the command does.
C9_DeadlineCallEnds == (hasEnd /\ CallActive) ~> CallDone

\* C10: while the child keeps running, a complete line pending on a stream
\* the call is still draining is eventually read, whatever the other stream
\* holds.
C10_PendingLineIsRead ==
    \A s \in Streams :
        (CallActive /\ childAlive /\ s \in reads /\ buf[s].lines > 0)
            ~> (buf[s].lines = 0 \/ ~childAlive \/ ~CallActive)

====
